---- MODULE Spec2Model ----
(***************************************************************************)
(* A model of the travel-budgeting application: the three row-scoped       *)
(* tables with their CHECK constraints and row level security policies,    *)
(* the browser session, the Savings, Expenses, Income, Dashboard and       *)
(* AI Coach pages with their asynchronous handlers, and the ai-coach edge  *)
(* function.                                                               *)
(*                                                                         *)
(* Amounts are DECIMAL(10,2) values and are modelled as whole numbers of   *)
(* cents.  Quotients (amount / 12, the pacing figure, the progress         *)
(* percentage) are modelled as exact fractions [n, d]; the binary floating *)
(* point rounding of JavaScript numbers is not modelled.                   *)
(* The value of a text input is a sequence: <<>> is the empty string and   *)
(* <<n>> is the decimal text of n.                                         *)
(***************************************************************************)
EXTENDS Integers, Sequences, FiniteSets, TLC

VARIABLES
    session,          \* supabase.auth session of the browser: a user, or NoUser
    income_sources,   \* table public.income_sources
    expenses,         \* table public.expenses
    savings_goals,    \* table public.savings_goals
    nextId,           \* next fresh primary key (gen_random_uuid)
    route,            \* the page component mounted in the tab
    inst,             \* which mount of a page component is the live one
    loading,          \* useState loading of the mounted page
    savingsGoals,     \* Savings: useState savingsGoals (the displayed list)
    newGoal,          \* Savings: useState newGoal (the add form)
    incomeSources,    \* Income: useState incomeSources (the displayed list)
    newIncome,        \* Income: useState newIncome (the add form)
    pageExpenses,     \* Expenses: useState expenses (the displayed list)
    newExpense,       \* Expenses: useState newExpense (the add form)
    dashboardData,    \* Dashboard: useState dashboardData
    recommendation,   \* AICoach: useState recommendation
    toast,            \* the last toast shown
    calls,            \* asynchronous handler invocations in flight
    ops,              \* number of user operations started so far
    now,              \* the clock, in ticks
    view              \* Savings: what the last render shows for each goal

authVars == <<session>>
dbVars == <<income_sources, expenses, savings_goals, nextId>>
navVars == <<route, inst>>
savingsVars == <<savingsGoals, newGoal>>
incomeVars == <<incomeSources, newIncome>>
expensesVars == <<pageExpenses, newExpense>>
pageVars == <<savingsVars, incomeVars, expensesVars, dashboardData,
              recommendation>>
clockVars == <<now, view>>

vars == <<authVars, dbVars, navVars, loading, pageVars, toast, calls, ops,
          clockVars>>

----------------------------------------------------------------------------
(* Bounds of the model *)

\* user operations (submits, clicks, navigations, session changes) in one run
MaxOps == 2
\* clock ticks in one run
MaxTicks == 4
\* clock ticks in one day
TicksPerDay == 2

Users == {"u1", "u2"}
NoUser == "none"

\* the text of a number, and JavaScript's parseFloat / Number.toString
NaN == "NaN"
parseFloat(s) == IF Len(s) = 0 THEN NaN ELSE s[1]
toString(n) == <<n>>

\* exact fractions in lowest terms; a zero denominator stands for
\* JavaScript's Infinity, -Infinity (numerator 1, -1) or NaN (numerator 0)
RECURSIVE Gcd(_, _)
Gcd(a, b) == IF b = 0 THEN a ELSE Gcd(b, a % b)
Abs(n) == IF n < 0 THEN -n ELSE n
Sign(n) == IF n < 0 THEN -1 ELSE IF n > 0 THEN 1 ELSE 0
Frac(n, d) ==
    IF d = 0 THEN [n |-> Sign(n), d |-> 0]
    ELSE LET g == Gcd(Abs(n), Abs(d))
         IN  [n |-> (Sign(d) * n) \div g, d |-> Abs(d) \div g]
Whole(n) == Frac(n, 1)
FracAdd(a, b) == Frac(a.n * b.d + b.n * a.d, a.d * b.d)
FracDiv(a, b) == Frac(a.n * b.d, a.d * b.n)
FracMul(a, b) == Frac(a.n * b.n, a.d * b.d)
FracPositive(a) == a.n > 0
\* === of two numbers: NaN equals nothing
FracEq(a, b) ==
    /\ ~(a.n = 0 /\ a.d = 0)
    /\ ~(b.n = 0 /\ b.d = 0)
    /\ a.n * b.d = b.n * a.d
    /\ (a.d = 0) = (b.d = 0)

\* Number.prototype.toFixed(2) of an amount in cents: the nearest whole cent
toFixed(x) ==
    IF x.n >= 0 THEN (2 * x.n + x.d) \div (2 * x.d)
    ELSE -((2 * (-x.n) + x.d) \div (2 * x.d))
----------------------------------------------------------------------------
(* The database: CHECK constraints and row level security policies *)

Frequencies == {"one-time", "monthly", "yearly"}
CATEGORIES == {"Flights", "Hotels", "Food", "Activities", "Transportation",
               "Shopping", "Other"}

CheckIncomeSource(row) ==
    /\ row.amount >= 0
    /\ row.frequency \in Frequencies

\* mutant: the CHECK on amount is missing
CheckExpense_CategoryOnly(row) ==
    row.category \in CATEGORIES

CheckExpense(row) ==
    /\ row.amount >= 0
    /\ row.category \in CATEGORIES

\* mutant: the CHECK on current_amount is missing
CheckSavingsGoal_TargetOnly(row) ==
    row.target_amount > 0

CheckSavingsGoal(row) ==
    /\ row.target_amount > 0
    /\ row.current_amount >= 0

\* auth.uid() = user_id; auth.uid() is NULL for a request without a session
IncomeSelectPolicy(uid, row) == uid # NoUser /\ uid = row.user_id
IncomeInsertPolicy(uid, row) == uid # NoUser /\ uid = row.user_id
IncomeDeletePolicy(uid, row) == uid # NoUser /\ uid = row.user_id
ExpensesSelectPolicy(uid, row) == uid # NoUser /\ uid = row.user_id
ExpensesInsertPolicy(uid, row) == uid # NoUser /\ uid = row.user_id
ExpensesDeletePolicy(uid, row) == uid # NoUser /\ uid = row.user_id
SavingsSelectPolicy(uid, row) == uid # NoUser /\ uid = row.user_id
SavingsInsertPolicy(uid, row) == uid # NoUser /\ uid = row.user_id
\* mutant: the UPDATE policy lets every request through
SavingsUpdatePolicy_Anyone(uid, row) == TRUE
SavingsUpdatePolicy(uid, row) == uid # NoUser /\ uid = row.user_id
\* mutant: the DELETE policy lets every request through
SavingsDeletePolicy_Anyone(uid, row) == TRUE
SavingsDeletePolicy(uid, row) == uid # NoUser /\ uid = row.user_id

----------------------------------------------------------------------------
(* Queries of the database, as PostgREST runs them for a request whose     *)
(* JWT identifies uid.  A select returns its rows as a sequence; rows that *)
(* the ORDER BY does not separate come in any order.                       *)

Perms(S) ==
    {f \in [1..Cardinality(S) -> S] :
        \A i, j \in 1..Cardinality(S) : i # j => f[i] # f[j]}

\* mutant: the goals are returned in any order
SelectSavingsGoals_Unordered(uid, owner) ==
    Perms({r \in savings_goals :
              SavingsSelectPolicy(uid, r) /\ r.user_id = owner})

\* from("savings_goals").select("*").eq("user_id", owner)
\*     .order("target_date", { ascending: true })
SelectSavingsGoals(uid, owner) ==
    LET rows == {r \in savings_goals :
                    SavingsSelectPolicy(uid, r) /\ r.user_id = owner}
    IN  {f \in Perms(rows) :
            \A i \in 1..(Cardinality(rows) - 1) :
                f[i].target_date <= f[i + 1].target_date}

\* from("expenses").select("*").eq("user_id", owner)
\*     .order("expense_date", { ascending: false })
SelectExpenses(uid, owner) ==
    LET rows == {r \in expenses :
                    ExpensesSelectPolicy(uid, r) /\ r.user_id = owner}
    IN  {f \in Perms(rows) :
            \A i \in 1..(Cardinality(rows) - 1) :
                f[i].expense_date >= f[i + 1].expense_date}

\* from("income_sources").select("*").eq("user_id", owner)
\*     .order("created_at", { ascending: false })
SelectIncomeSources(uid, owner) ==
    LET rows == {r \in income_sources :
                    IncomeSelectPolicy(uid, r) /\ r.user_id = owner}
    IN  {f \in Perms(rows) :
            \A i \in 1..(Cardinality(rows) - 1) :
                f[i].created_at >= f[i + 1].created_at}

\* from(<table>).select(<columns>).eq("user_id", owner), without an ORDER BY
\* (Dashboard)
SelectIncomeUnordered(uid, owner) ==
    Perms({r \in income_sources :
              IncomeSelectPolicy(uid, r) /\ r.user_id = owner})

SelectExpensesUnordered(uid, owner) ==
    Perms({r \in expenses :
              ExpensesSelectPolicy(uid, r) /\ r.user_id = owner})

SelectSavingsUnordered(uid, owner) ==
    Perms({r \in savings_goals :
              SavingsSelectPolicy(uid, r) /\ r.user_id = owner})

\* from(<table>).select('*').eq('user_id', owner) of a client created with
\* the service role key, which no policy restricts (ai-coach)
ServiceRoleSelect(table, owner) ==
    Perms({r \in (CASE table = "income_sources" -> income_sources
                     [] table = "expenses" -> expenses
                     [] table = "savings_goals" -> savings_goals) :
              r.user_id = owner})

\* an insert: the error, or "ok"
InsertSavingsGoalResult(uid, row) ==
    IF ~SavingsInsertPolicy(uid, row) THEN "rls"
    ELSE IF ~CheckSavingsGoal(row) THEN "check"
    ELSE "ok"

InsertExpenseResult(uid, row) ==
    IF ~ExpensesInsertPolicy(uid, row) THEN "rls"
    ELSE IF ~CheckExpense(row) THEN "check"
    ELSE "ok"

InsertIncomeSourceResult(uid, row) ==
    IF ~IncomeInsertPolicy(uid, row) THEN "rls"
    ELSE IF ~CheckIncomeSource(row) THEN "check"
    ELSE "ok"

\* mutant: the update keeps the larger of the stored and the written amount
UpdatedSavingsGoals_KeepLarger(uid, id, amount) ==
    {IF r.id = id /\ SavingsUpdatePolicy(uid, r) /\ amount > r.current_amount
        THEN [r EXCEPT !.current_amount = amount] ELSE r : r \in savings_goals}

\* update savings_goals set current_amount = amount where id = id
UpdatedSavingsGoals(uid, id, amount) ==
    {IF r.id = id /\ SavingsUpdatePolicy(uid, r)
        THEN [r EXCEPT !.current_amount = amount] ELSE r : r \in savings_goals}

UpdateSavingsGoalResult(uid, id, amount) ==
    IF \E r \in UpdatedSavingsGoals(uid, id, amount) : ~CheckSavingsGoal(r)
        THEN "check" ELSE "ok"

\* delete from <table> where id = id
SavingsGoalsAfterDelete(uid, id) ==
    {r \in savings_goals : ~(r.id = id /\ SavingsDeletePolicy(uid, r))}

\* mutant: the delete removes nothing
ExpensesAfterDelete_Kept(uid, id) == expenses

ExpensesAfterDelete(uid, id) ==
    {r \in expenses : ~(r.id = id /\ ExpensesDeletePolicy(uid, r))}

IncomeSourcesAfterDelete(uid, id) ==
    {r \in income_sources : ~(r.id = id /\ IncomeDeletePolicy(uid, r))}

----------------------------------------------------------------------------
(* Asynchronous handler invocations.  A call is at one of its awaits (pc); *)
(* it belongs to the component mount that started it, and a setState of a *)
(* component that is no longer mounted has no effect.                      *)

Pages == {"dashboard", "income", "expenses", "savings", "ai-coach"}

NoForm == [empty |-> TRUE]
NoAcc == [empty |-> TRUE]

NoToast == [title |-> "", description |-> ""]
Success(d) == [title |-> "Success", description |-> d]
Failure(d) == [title |-> "Error", description |-> d]

Call(cid, kind, pc, i) ==
    [cid |-> cid, kind |-> kind, pc |-> pc, inst |-> i, user |-> NoUser,
     auth |-> NoUser, id |-> 0, val |-> <<>>, amt |-> 0, form |-> NoForm,
     question |-> <<>>, data |-> <<>>, acc |-> NoAcc, outbound |-> 0]

Live(c) == c.inst = inst

Today == now \div TicksPerDay

EmptyGoalForm == [goal_name |-> "", target_amount |-> <<>>,
                  current_amount |-> <<0>>, target_date |-> <<>>]
EmptyIncomeForm == [source_name |-> "", amount |-> <<>>,
                    frequency |-> "monthly"]
EmptyExpenseForm == [title |-> "", amount |-> <<>>, category |-> "Food",
                     expense_date |-> <<Today>>]
EmptyDashboard == [totalIncome |-> Whole(0), totalExpenses |-> 0,
                   totalSavings |-> 0, savingsGoalProgress |-> Whole(0),
                   expensesByCategory |-> <<>>, monthlyTrend |-> <<>>]

\* the list a page fetches in its useEffect
FetchKind(page) ==
    CASE page = "savings" -> "fetchSavingsGoals"
      [] page = "expenses" -> "fetchExpenses"
      [] page = "income" -> "fetchIncomeSources"
      [] page = "dashboard" -> "fetchDashboardData"

\* useEffect(() => { checkAuth(); fetch...(); }, []) of the page mounted as i
MountCalls(page, i) ==
    IF page \notin Pages THEN {}
    ELSE {Call(0, "checkAuth", "getSession", i)} \cup
         (IF page = "ai-coach" THEN {}
          ELSE {Call(0, FetchKind(page), "getUser", i)})

\* the useState initial values of the page mounted as i
Mount(page, i, others) ==
    /\ route' = page
    /\ inst' = i
    /\ loading' = (page \in Pages \ {"ai-coach"})
    /\ savingsGoals' = <<>>
    /\ newGoal' = EmptyGoalForm
    /\ incomeSources' = <<>>
    /\ newIncome' = EmptyIncomeForm
    /\ pageExpenses' = <<>>
    /\ newExpense' = EmptyExpenseForm
    /\ dashboardData' = EmptyDashboard
    /\ recommendation' = ""
    /\ calls' = others \cup MountCalls(page, i)

\* checkAuth: getSession resolves; without a session, navigate("/auth")
CheckAuth(c) ==
    /\ c \in calls /\ c.kind = "checkAuth"
    /\ IF session = NoUser /\ route # "auth"
          THEN Mount("auth", inst + 1, calls \ {c})
          ELSE /\ calls' = calls \ {c}
               /\ UNCHANGED <<navVars, loading, pageVars>>
    /\ UNCHANGED <<authVars, dbVars, toast, ops, clockVars>>

\* a link of DashboardNav is followed: the page unmounts, another mounts
Navigate(page) ==
    /\ route \in Pages /\ page \in Pages /\ page # route
    /\ ops < MaxOps
    /\ Mount(page, inst + 1, calls)
    /\ ops' = ops + 1
    /\ UNCHANGED <<authVars, dbVars, toast, clockVars>>

\* DashboardNav's Sign Out button: handleSignOut
HandleSignOut ==
    /\ route \in Pages /\ ops < MaxOps
    /\ session' = NoUser
    /\ toast' = [title |-> "Signed out",
                 description |-> "You have been successfully signed out."]
    /\ Mount("auth", inst + 1, calls)
    /\ ops' = ops + 1
    /\ UNCHANGED <<dbVars, clockVars>>

\* the session changes under the page: a sign-in or sign-out in another tab
AuthStateChange(u) ==
    /\ u # session /\ ops < MaxOps
    /\ session' = u
    /\ ops' = ops + 1
    /\ UNCHANGED <<dbVars, navVars, loading, pageVars, toast, calls,
                   clockVars>>

----------------------------------------------------------------------------
(* Savings page *)

\* what the user can type into the add form and the contribution input
GoalNames == {"trip"}
GoalInputs == {[target |-> 200, current |-> 0], [target |-> 0, current |-> 0],
               [target |-> 200, current |-> -100]}
DateInputs == {1, 3}
ContributionInputs == {<<>>, <<-100>>, <<0>>, <<100>>}

\* mutant: without a user the fetch returns before loading is lowered
FetchGoalsGetUser_NoFinally(c) ==
    /\ c \in calls /\ c.kind = "fetchSavingsGoals" /\ c.pc = "getUser"
    /\ IF session = NoUser
          THEN /\ calls' = calls \ {c}
               /\ loading' = loading
          ELSE /\ calls' = (calls \ {c}) \cup
                             {[c EXCEPT !.pc = "select", !.user = session]}
               /\ UNCHANGED loading
    /\ UNCHANGED <<authVars, dbVars, navVars, pageVars, toast, ops, clockVars>>

\* fetchSavingsGoals, first await: supabase.auth.getUser()
FetchGoalsGetUser(c) ==
    /\ c \in calls /\ c.kind = "fetchSavingsGoals" /\ c.pc = "getUser"
    /\ IF session = NoUser
          THEN /\ calls' = calls \ {c}
               /\ loading' = IF Live(c) THEN FALSE ELSE loading
          ELSE /\ calls' = (calls \ {c}) \cup
                             {[c EXCEPT !.pc = "select", !.user = session]}
               /\ UNCHANGED loading
    /\ UNCHANGED <<authVars, dbVars, navVars, pageVars, toast, ops, clockVars>>

\* fetchSavingsGoals, second await: the select runs in the database
FetchGoalsSelect(c) ==
    /\ c \in calls /\ c.kind = "fetchSavingsGoals" /\ c.pc = "select"
    /\ \E data \in SelectSavingsGoals(session, c.user) :
          calls' = (calls \ {c}) \cup
                      {[c EXCEPT !.pc = "resp", !.auth = session, !.data = data]}
    /\ UNCHANGED <<authVars, dbVars, navVars, loading, pageVars, toast, ops,
                   clockVars>>

\* fetchSavingsGoals, the response arrives: setSavingsGoals, setLoading(false)
FetchGoalsResp(c) ==
    /\ c \in calls /\ c.kind = "fetchSavingsGoals" /\ c.pc = "resp"
    /\ calls' = calls \ {c}
    /\ savingsGoals' = IF Live(c) THEN c.data ELSE savingsGoals
    /\ loading' = IF Live(c) THEN FALSE ELSE loading
    /\ UNCHANGED <<authVars, dbVars, navVars, newGoal, incomeVars,
                   expensesVars, dashboardData, recommendation, toast, ops,
                   clockVars>>

\* the add form is submitted (every field is required): handleAddGoal starts
SubmitAddGoal ==
    /\ route = "savings" /\ ~loading /\ ops < MaxOps
    /\ \E n \in GoalNames, a \in GoalInputs, d \in DateInputs :
          LET form == [goal_name |-> n, target_amount |-> toString(a.target),
                       current_amount |-> toString(a.current),
                       target_date |-> <<d>>]
          IN  /\ newGoal' = form
              /\ calls' = calls \cup
                    {[Call(ops + 1, "handleAddGoal", "getUser", inst)
                        EXCEPT !.form = form]}
    /\ ops' = ops + 1
    /\ UNCHANGED <<authVars, dbVars, navVars, loading, savingsGoals,
                   incomeVars, expensesVars, dashboardData, recommendation,
                   toast, clockVars>>

\* handleAddGoal, first await: supabase.auth.getUser()
AddGoalGetUser(c) ==
    /\ c \in calls /\ c.kind = "handleAddGoal" /\ c.pc = "getUser"
    /\ calls' = IF session = NoUser
                  THEN calls \ {c}
                  ELSE (calls \ {c}) \cup
                          {[c EXCEPT !.pc = "insert", !.user = session]}
    /\ UNCHANGED <<authVars, dbVars, navVars, loading, pageVars, toast, ops,
                   clockVars>>

\* mutant: the form is reset after a refused insert as well
AddGoalInsert_AlwaysResets(c) ==
    /\ c \in calls /\ c.kind = "handleAddGoal" /\ c.pc = "insert"
    /\ LET row == [id |-> nextId, user_id |-> c.user,
                   goal_name |-> c.form.goal_name,
                   target_amount |-> parseFloat(c.form.target_amount),
                   current_amount |-> parseFloat(c.form.current_amount),
                   target_date |-> c.form.target_date[1]]
           res == InsertSavingsGoalResult(session, row)
       IN  IF res = "ok"
             THEN /\ savings_goals' = savings_goals \cup {row}
                  /\ nextId' = nextId + 1
                  /\ toast' = Success("Savings goal added successfully.")
                  /\ newGoal' = IF Live(c) THEN EmptyGoalForm ELSE newGoal
                  /\ calls' = (calls \ {c}) \cup
                        {Call(c.cid, "fetchSavingsGoals", "getUser", c.inst)}
             ELSE /\ toast' = Failure(res)
                  /\ calls' = calls \ {c}
                  /\ newGoal' = IF Live(c) THEN EmptyGoalForm ELSE newGoal
                  /\ UNCHANGED <<savings_goals, nextId>>
    /\ UNCHANGED <<authVars, income_sources, expenses, navVars, loading,
                   savingsGoals, incomeVars, expensesVars, dashboardData,
                   recommendation, ops, clockVars>>

\* handleAddGoal, second await: the insert, then toast, form reset and refetch
AddGoalInsert(c) ==
    /\ c \in calls /\ c.kind = "handleAddGoal" /\ c.pc = "insert"
    /\ LET row == [id |-> nextId, user_id |-> c.user,
                   goal_name |-> c.form.goal_name,
                   target_amount |-> parseFloat(c.form.target_amount),
                   current_amount |-> parseFloat(c.form.current_amount),
                   target_date |-> c.form.target_date[1]]
           res == InsertSavingsGoalResult(session, row)
       IN  IF res = "ok"
             THEN /\ savings_goals' = savings_goals \cup {row}
                  /\ nextId' = nextId + 1
                  /\ toast' = Success("Savings goal added successfully.")
                  /\ newGoal' = IF Live(c) THEN EmptyGoalForm ELSE newGoal
                  /\ calls' = (calls \ {c}) \cup
                        {Call(c.cid, "fetchSavingsGoals", "getUser", c.inst)}
             ELSE /\ toast' = Failure(res)
                  /\ calls' = calls \ {c}
                  /\ UNCHANGED <<savings_goals, nextId, newGoal>>
    /\ UNCHANGED <<authVars, income_sources, expenses, navVars, loading,
                   savingsGoals, incomeVars, expensesVars, dashboardData,
                   recommendation, ops, clockVars>>

\* Enter or the Add button on the i-th displayed goal: the new total is the
\* displayed current_amount plus the input, and handleUpdateProgress starts
ClickAddContribution(i, input) ==
    /\ route = "savings" /\ ~loading /\ ops < MaxOps
    /\ i \in 1..Len(savingsGoals)
    /\ LET goal == savingsGoals[i]
           text == IF input = <<>> THEN <<0>> ELSE input
           newTotal == goal.current_amount + parseFloat(text)
       IN  calls' = calls \cup
             {[Call(ops + 1, "handleUpdateProgress", "update", inst) EXCEPT
                  !.id = goal.id, !.val = toString(newTotal),
                  !.amt = parseFloat(text)]}
    /\ ops' = ops + 1
    /\ UNCHANGED <<authVars, dbVars, navVars, loading, pageVars, toast,
                   clockVars>>

\* mutant: the update is sent without its filter on the id
UpdateProgress_NoFilter(c) ==
    /\ c \in calls /\ c.kind = "handleUpdateProgress" /\ c.pc = "update"
    /\ LET amount == parseFloat(c.val)
           res == UpdateSavingsGoalResult(session, c.id, amount)
       IN  IF res = "ok"
             THEN /\ savings_goals' =
                        {IF SavingsUpdatePolicy(session, r)
                            THEN [r EXCEPT !.current_amount = amount]
                            ELSE r : r \in savings_goals}
                  /\ toast' = Success("Progress updated.")
                  /\ calls' = (calls \ {c}) \cup
                        {Call(c.cid, "fetchSavingsGoals", "getUser", c.inst)}
             ELSE /\ toast' = Failure(res)
                  /\ calls' = calls \ {c}
                  /\ UNCHANGED savings_goals
    /\ UNCHANGED <<authVars, income_sources, expenses, nextId, navVars,
                   loading, pageVars, ops, clockVars>>

\* handleUpdateProgress: the update, then toast and refetch
UpdateProgress(c) ==
    /\ c \in calls /\ c.kind = "handleUpdateProgress" /\ c.pc = "update"
    /\ LET amount == parseFloat(c.val)
           res == UpdateSavingsGoalResult(session, c.id, amount)
       IN  IF res = "ok"
             THEN /\ savings_goals' = UpdatedSavingsGoals(session, c.id, amount)
                  /\ toast' = Success("Progress updated.")
                  /\ calls' = (calls \ {c}) \cup
                        {Call(c.cid, "fetchSavingsGoals", "getUser", c.inst)}
             ELSE /\ toast' = Failure(res)
                  /\ calls' = calls \ {c}
                  /\ UNCHANGED savings_goals
    /\ UNCHANGED <<authVars, income_sources, expenses, nextId, navVars,
                   loading, pageVars, ops, clockVars>>

\* the trash button on the i-th displayed goal: handleDeleteGoal starts
ClickDeleteGoal(i) ==
    /\ route = "savings" /\ ~loading /\ ops < MaxOps
    /\ i \in 1..Len(savingsGoals)
    /\ calls' = calls \cup
          {[Call(ops + 1, "handleDeleteGoal", "delete", inst)
              EXCEPT !.id = savingsGoals[i].id]}
    /\ ops' = ops + 1
    /\ UNCHANGED <<authVars, dbVars, navVars, loading, pageVars, toast,
                   clockVars>>

\* handleDeleteGoal: the delete, then toast and refetch
DeleteGoal(c) ==
    /\ c \in calls /\ c.kind = "handleDeleteGoal" /\ c.pc = "delete"
    /\ savings_goals' = SavingsGoalsAfterDelete(session, c.id)
    /\ toast' = Success("Savings goal deleted.")
    /\ calls' = (calls \ {c}) \cup
          {Call(c.cid, "fetchSavingsGoals", "getUser", c.inst)}
    /\ UNCHANGED <<authVars, income_sources, expenses, nextId, navVars,
                   loading, pageVars, ops, clockVars>>

----------------------------------------------------------------------------
(* Savings page: what a render computes and shows for a goal.  The target  *)
(* date is midnight of its day; the clock counts ticks.                    *)

\* Math.ceil over a positive divisor
Ceil(n, d) == -((-n) \div d)

progress(goal) ==
    FracMul(Frac(goal.current_amount, goal.target_amount), Whole(100))

daysUntilTarget(goal, t) ==
    Ceil(goal.target_date * TicksPerDay - t, TicksPerDay)

\* mutant: the remaining days are not converted to months
monthlyNeeded_PerDay(goal, t) ==
    IF daysUntilTarget(goal, t) > 0
        THEN FracDiv(Whole(goal.target_amount - goal.current_amount),
                     Whole(daysUntilTarget(goal, t)))
        ELSE Whole(0)

monthlyNeeded(goal, t) ==
    IF daysUntilTarget(goal, t) > 0
        THEN FracDiv(Whole(goal.target_amount - goal.current_amount),
                     Frac(daysUntilTarget(goal, t), 30))
        ELSE Whole(0)

\* mutant: a figure of zero is shown as well
PacingShown_NonNegative(goal, t) == monthlyNeeded(goal, t).n >= 0

\* {monthlyNeeded > 0 && (...)}
PacingShown(goal, t) == FracPositive(monthlyNeeded(goal, t))

\* the card of one goal: its amounts, its progress and, when it is shown, the
\* pacing figure (the number that toFixed(2) prints)
GoalCard(goal, t) ==
    [id |-> goal.id,
     current_amount |-> goal.current_amount,
     target_amount |-> goal.target_amount,
     target_date |-> goal.target_date,
     progress |-> progress(goal),
     pacing |-> IF PacingShown(goal, t) THEN <<monthlyNeeded(goal, t)>>
                ELSE <<>>]

\* the component renders its list at the current time
Render ==
    /\ route = "savings" /\ ~loading
    /\ view' = [at |-> now,
                goals |-> [i \in 1..Len(savingsGoals) |->
                              GoalCard(savingsGoals[i], now)]]
    /\ UNCHANGED <<authVars, dbVars, navVars, loading, pageVars, toast, calls,
                   ops, now>>

\* time passes
Tick ==
    /\ now < MaxTicks
    /\ now' = now + 1
    /\ UNCHANGED <<authVars, dbVars, navVars, loading, pageVars, toast, calls,
                   ops, view>>

----------------------------------------------------------------------------
(* Income page *)

\* what the user can type into the add form
SourceNames == {"job"}
IncomeInputs == {[amount |-> 1200, frequency |-> "yearly"],
                 [amount |-> -100, frequency |-> "monthly"]}

\* fetchIncomeSources, first await: supabase.auth.getUser()
FetchIncomeGetUser(c) ==
    /\ c \in calls /\ c.kind = "fetchIncomeSources" /\ c.pc = "getUser"
    /\ IF session = NoUser
          THEN /\ calls' = calls \ {c}
               /\ loading' = IF Live(c) THEN FALSE ELSE loading
          ELSE /\ calls' = (calls \ {c}) \cup
                             {[c EXCEPT !.pc = "select", !.user = session]}
               /\ UNCHANGED loading
    /\ UNCHANGED <<authVars, dbVars, navVars, pageVars, toast, ops, clockVars>>

\* fetchIncomeSources, second await: the select runs in the database
FetchIncomeSelect(c) ==
    /\ c \in calls /\ c.kind = "fetchIncomeSources" /\ c.pc = "select"
    /\ \E data \in SelectIncomeSources(session, c.user) :
          calls' = (calls \ {c}) \cup
                      {[c EXCEPT !.pc = "resp", !.auth = session, !.data = data]}
    /\ UNCHANGED <<authVars, dbVars, navVars, loading, pageVars, toast, ops,
                   clockVars>>

\* fetchIncomeSources, the response arrives: setIncomeSources,
\* setLoading(false)
FetchIncomeResp(c) ==
    /\ c \in calls /\ c.kind = "fetchIncomeSources" /\ c.pc = "resp"
    /\ calls' = calls \ {c}
    /\ incomeSources' = IF Live(c) THEN c.data ELSE incomeSources
    /\ loading' = IF Live(c) THEN FALSE ELSE loading
    /\ UNCHANGED <<authVars, dbVars, navVars, savingsVars, newIncome,
                   expensesVars, dashboardData, recommendation, toast, ops,
                   clockVars>>

\* the add form is submitted (every field is required): handleAddIncome starts
SubmitAddIncome ==
    /\ route = "income" /\ ~loading /\ ops < MaxOps
    /\ \E n \in SourceNames, a \in IncomeInputs :
          LET form == [source_name |-> n, amount |-> toString(a.amount),
                       frequency |-> a.frequency]
          IN  /\ newIncome' = form
              /\ calls' = calls \cup
                    {[Call(ops + 1, "handleAddIncome", "getUser", inst)
                        EXCEPT !.form = form]}
    /\ ops' = ops + 1
    /\ UNCHANGED <<authVars, dbVars, navVars, loading, savingsVars,
                   incomeSources, expensesVars, dashboardData, recommendation,
                   toast, clockVars>>

\* handleAddIncome, first await: supabase.auth.getUser()
AddIncomeGetUser(c) ==
    /\ c \in calls /\ c.kind = "handleAddIncome" /\ c.pc = "getUser"
    /\ calls' = IF session = NoUser
                  THEN calls \ {c}
                  ELSE (calls \ {c}) \cup
                          {[c EXCEPT !.pc = "insert", !.user = session]}
    /\ UNCHANGED <<authVars, dbVars, navVars, loading, pageVars, toast, ops,
                   clockVars>>

\* handleAddIncome, second await: the insert, then toast, form reset and
\* refetch
AddIncomeInsert(c) ==
    /\ c \in calls /\ c.kind = "handleAddIncome" /\ c.pc = "insert"
    /\ LET row == [id |-> nextId, user_id |-> c.user,
                   source_name |-> c.form.source_name,
                   amount |-> parseFloat(c.form.amount),
                   frequency |-> c.form.frequency,
                   created_at |-> now]
           res == InsertIncomeSourceResult(session, row)
       IN  IF res = "ok"
             THEN /\ income_sources' = income_sources \cup {row}
                  /\ nextId' = nextId + 1
                  /\ toast' = Success("Income source added successfully.")
                  /\ newIncome' = IF Live(c) THEN EmptyIncomeForm
                                  ELSE newIncome
                  /\ calls' = (calls \ {c}) \cup
                        {Call(c.cid, "fetchIncomeSources", "getUser", c.inst)}
             ELSE /\ toast' = Failure(res)
                  /\ calls' = calls \ {c}
                  /\ UNCHANGED <<income_sources, nextId, newIncome>>
    /\ UNCHANGED <<authVars, expenses, savings_goals, navVars, loading,
                   savingsVars, incomeSources, expensesVars, dashboardData,
                   recommendation, ops, clockVars>>

\* the trash button on the i-th displayed source: handleDeleteIncome starts
ClickDeleteIncome(i) ==
    /\ route = "income" /\ ~loading /\ ops < MaxOps
    /\ i \in 1..Len(incomeSources)
    /\ calls' = calls \cup
          {[Call(ops + 1, "handleDeleteIncome", "delete", inst)
              EXCEPT !.id = incomeSources[i].id]}
    /\ ops' = ops + 1
    /\ UNCHANGED <<authVars, dbVars, navVars, loading, pageVars, toast,
                   clockVars>>

\* handleDeleteIncome: the delete, then toast and refetch
DeleteIncome(c) ==
    /\ c \in calls /\ c.kind = "handleDeleteIncome" /\ c.pc = "delete"
    /\ income_sources' = IncomeSourcesAfterDelete(session, c.id)
    /\ toast' = Success("Income source deleted.")
    /\ calls' = (calls \ {c}) \cup
          {Call(c.cid, "fetchIncomeSources", "getUser", c.inst)}
    /\ UNCHANGED <<authVars, expenses, savings_goals, nextId, navVars,
                   loading, pageVars, ops, clockVars>>

----------------------------------------------------------------------------
(* Expenses page *)

\* what the user can type into the add form
ExpenseTitles == {"lunch"}
ExpenseInputs == {[amount |-> 50, category |-> "Food"],
                  [amount |-> -50, category |-> "Hotels"]}

\* fetchExpenses, first await: supabase.auth.getUser()
FetchExpensesGetUser(c) ==
    /\ c \in calls /\ c.kind = "fetchExpenses" /\ c.pc = "getUser"
    /\ IF session = NoUser
          THEN /\ calls' = calls \ {c}
               /\ loading' = IF Live(c) THEN FALSE ELSE loading
          ELSE /\ calls' = (calls \ {c}) \cup
                             {[c EXCEPT !.pc = "select", !.user = session]}
               /\ UNCHANGED loading
    /\ UNCHANGED <<authVars, dbVars, navVars, pageVars, toast, ops, clockVars>>

\* fetchExpenses, second await: the select runs in the database
FetchExpensesSelect(c) ==
    /\ c \in calls /\ c.kind = "fetchExpenses" /\ c.pc = "select"
    /\ \E data \in SelectExpenses(session, c.user) :
          calls' = (calls \ {c}) \cup
                      {[c EXCEPT !.pc = "resp", !.auth = session, !.data = data]}
    /\ UNCHANGED <<authVars, dbVars, navVars, loading, pageVars, toast, ops,
                   clockVars>>

\* fetchExpenses, the response arrives: setExpenses, setLoading(false)
FetchExpensesResp(c) ==
    /\ c \in calls /\ c.kind = "fetchExpenses" /\ c.pc = "resp"
    /\ calls' = calls \ {c}
    /\ pageExpenses' = IF Live(c) THEN c.data ELSE pageExpenses
    /\ loading' = IF Live(c) THEN FALSE ELSE loading
    /\ UNCHANGED <<authVars, dbVars, navVars, savingsVars, incomeVars,
                   newExpense, dashboardData, recommendation, toast, ops,
                   clockVars>>

\* the add form is submitted (title, amount and date are required; the date
\* is left at its default, today): handleAddExpense starts
SubmitAddExpense ==
    /\ route = "expenses" /\ ~loading /\ ops < MaxOps
    /\ \E n \in ExpenseTitles, a \in ExpenseInputs :
          LET form == [title |-> n, amount |-> toString(a.amount),
                       category |-> a.category,
                       expense_date |-> newExpense.expense_date]
          IN  /\ newExpense' = form
              /\ calls' = calls \cup
                    {[Call(ops + 1, "handleAddExpense", "getUser", inst)
                        EXCEPT !.form = form]}
    /\ ops' = ops + 1
    /\ UNCHANGED <<authVars, dbVars, navVars, loading, savingsVars,
                   incomeVars, pageExpenses, dashboardData, recommendation,
                   toast, clockVars>>

\* handleAddExpense, first await: supabase.auth.getUser()
AddExpenseGetUser(c) ==
    /\ c \in calls /\ c.kind = "handleAddExpense" /\ c.pc = "getUser"
    /\ calls' = IF session = NoUser
                  THEN calls \ {c}
                  ELSE (calls \ {c}) \cup
                          {[c EXCEPT !.pc = "insert", !.user = session]}
    /\ UNCHANGED <<authVars, dbVars, navVars, loading, pageVars, toast, ops,
                   clockVars>>

\* handleAddExpense, second await: the insert, then toast, form reset and
\* refetch
AddExpenseInsert(c) ==
    /\ c \in calls /\ c.kind = "handleAddExpense" /\ c.pc = "insert"
    /\ LET row == [id |-> nextId, user_id |-> c.user,
                   title |-> c.form.title,
                   amount |-> parseFloat(c.form.amount),
                   category |-> c.form.category,
                   expense_date |-> c.form.expense_date[1]]
           res == InsertExpenseResult(session, row)
       IN  IF res = "ok"
             THEN /\ expenses' = expenses \cup {row}
                  /\ nextId' = nextId + 1
                  /\ toast' = Success("Expense added successfully.")
                  /\ newExpense' = IF Live(c) THEN EmptyExpenseForm
                                   ELSE newExpense
                  /\ calls' = (calls \ {c}) \cup
                        {Call(c.cid, "fetchExpenses", "getUser", c.inst)}
             ELSE /\ toast' = Failure(res)
                  /\ calls' = calls \ {c}
                  /\ UNCHANGED <<expenses, nextId, newExpense>>
    /\ UNCHANGED <<authVars, income_sources, savings_goals, navVars, loading,
                   savingsVars, incomeVars, pageExpenses, dashboardData,
                   recommendation, ops, clockVars>>

\* the trash button on the i-th displayed expense: handleDeleteExpense starts
ClickDeleteExpense(i) ==
    /\ route = "expenses" /\ ~loading /\ ops < MaxOps
    /\ i \in 1..Len(pageExpenses)
    /\ calls' = calls \cup
          {[Call(ops + 1, "handleDeleteExpense", "delete", inst)
              EXCEPT !.id = pageExpenses[i].id]}
    /\ ops' = ops + 1
    /\ UNCHANGED <<authVars, dbVars, navVars, loading, pageVars, toast,
                   clockVars>>

\* handleDeleteExpense: the delete, then toast and refetch
DeleteExpense(c) ==
    /\ c \in calls /\ c.kind = "handleDeleteExpense" /\ c.pc = "delete"
    /\ expenses' = ExpensesAfterDelete(session, c.id)
    /\ toast' = Success("Expense deleted.")
    /\ calls' = (calls \ {c}) \cup
          {Call(c.cid, "fetchExpenses", "getUser", c.inst)}
    /\ UNCHANGED <<authVars, income_sources, savings_goals, nextId, navVars,
                   loading, pageVars, ops, clockVars>>

----------------------------------------------------------------------------
(* Dashboard page: fetchDashboardData and its aggregations *)

\* Array.prototype.reduce is written out in each aggregation as the function
\* acc_ of the number of items folded so far

\* parseFloat(item.<column>) of a numeric column of a returned row
amountOf(n) == parseFloat(toString(n))

\* mutant: a yearly amount is counted in full
totalIncome_YearlyUndivided(incomeData) ==
    LET step(sum, item) ==
            IF item.frequency \in {"yearly", "monthly"}
                THEN FracAdd(sum, Whole(amountOf(item.amount)))
                ELSE sum
        acc_[i \in 0..Len(incomeData)] ==
            IF i = 0 THEN Whole(0) ELSE step(acc_[i - 1], incomeData[i])
    IN  acc_[Len(incomeData)]

\* total income, normalised to monthly
totalIncome(incomeData) ==
    LET step(sum, item) ==
            LET amount == Whole(amountOf(item.amount)) IN
            IF item.frequency = "yearly"
                THEN FracAdd(sum, FracDiv(amount, Whole(12)))
            ELSE IF item.frequency = "monthly" THEN FracAdd(sum, amount)
            ELSE sum
        acc_[i \in 0..Len(incomeData)] ==
            IF i = 0 THEN Whole(0) ELSE step(acc_[i - 1], incomeData[i])
    IN  acc_[Len(incomeData)]

totalExpenses(expensesData) ==
    LET step(sum, item) == sum + amountOf(item.amount)
        acc_[i \in 0..Len(expensesData)] ==
            IF i = 0 THEN 0 ELSE step(acc_[i - 1], expensesData[i])
    IN  acc_[Len(expensesData)]

\* mutant: an expense of a category already present replaces its value
expensesByCategory_Overwrite(expensesData) ==
    LET step(acc, item) ==
            IF \E k \in 1..Len(acc) : acc[k].name = item.category
                THEN [k \in 1..Len(acc) |->
                        IF acc[k].name = item.category
                            THEN [acc[k] EXCEPT !.value = amountOf(item.amount)]
                            ELSE acc[k]]
                ELSE Append(acc, [name |-> item.category,
                                  value |-> amountOf(item.amount)])
        acc_[i \in 0..Len(expensesData)] ==
            IF i = 0 THEN <<>> ELSE step(acc_[i - 1], expensesData[i])
    IN  acc_[Len(expensesData)]

\* expenses by category: an array of { name, value }; acc.find gives the
\* first entry of the category
expensesByCategory(expensesData) ==
    LET step(acc, item) ==
            LET found == {k \in 1..Len(acc) : acc[k].name = item.category}
            IN  IF found # {}
                  THEN LET existing == CHOOSE k \in found :
                                           \A j \in found : k <= j
                       IN  [acc EXCEPT ![existing].value =
                                           @ + amountOf(item.amount)]
                  ELSE Append(acc, [name |-> item.category,
                                    value |-> amountOf(item.amount)])
        acc_[i \in 0..Len(expensesData)] ==
            IF i = 0 THEN <<>> ELSE step(acc_[i - 1], expensesData[i])
    IN  acc_[Len(expensesData)]

totalTargetSavings(savingsData) ==
    LET step(sum, item) == sum + amountOf(item.target_amount)
        acc_[i \in 0..Len(savingsData)] ==
            IF i = 0 THEN 0 ELSE step(acc_[i - 1], savingsData[i])
    IN  acc_[Len(savingsData)]

totalCurrentSavings(savingsData) ==
    LET step(sum, item) == sum + amountOf(item.current_amount)
        acc_[i \in 0..Len(savingsData)] ==
            IF i = 0 THEN 0 ELSE step(acc_[i - 1], savingsData[i])
    IN  acc_[Len(savingsData)]

\* mutant: the division is not guarded
savingsGoalProgress_Unguarded(savingsData) ==
    FracMul(FracDiv(Whole(totalCurrentSavings(savingsData)),
                    Whole(totalTargetSavings(savingsData))), Whole(100))

savingsGoalProgress(savingsData) ==
    IF totalTargetSavings(savingsData) > 0
        THEN FracMul(FracDiv(Whole(totalCurrentSavings(savingsData)),
                             Whole(totalTargetSavings(savingsData))),
                     Whole(100))
        ELSE Whole(0)

\* mutant: Jan and Feb carry the factors of the expenses for the income too
monthlyTrend_OneScale(income, spent) ==
    <<[month |-> "Jan", income |-> FracMul(income, Frac(7, 10)),
       expenses |-> FracMul(Whole(spent), Frac(7, 10))],
      [month |-> "Feb", income |-> FracMul(income, Frac(8, 10)),
       expenses |-> FracMul(Whole(spent), Frac(8, 10))],
      [month |-> "Mar", income |-> income, expenses |-> Whole(spent)]>>

monthlyTrend(income, spent) ==
    <<[month |-> "Jan", income |-> FracMul(income, Frac(8, 10)),
       expenses |-> FracMul(Whole(spent), Frac(7, 10))],
      [month |-> "Feb", income |-> FracMul(income, Frac(9, 10)),
       expenses |-> FracMul(Whole(spent), Frac(8, 10))],
      [month |-> "Mar", income |-> income, expenses |-> Whole(spent)]>>

\* mutant: the available funds are never shown below zero
availableFunds_NonNegative(data) ==
    IF FracAdd(data.totalIncome, Whole(-data.totalExpenses)).n < 0
        THEN Whole(0)
        ELSE FracAdd(data.totalIncome, Whole(-data.totalExpenses))

\* const availableFunds = dashboardData.totalIncome - dashboardData.totalExpenses
availableFunds(data) == FracAdd(data.totalIncome, Whole(-data.totalExpenses))

\* the three money cards: each figure through toFixed(2)
StatsCards(data) ==
    [totalIncome |-> toFixed(data.totalIncome),
     totalExpenses |-> toFixed(Whole(data.totalExpenses)),
     availableFunds |-> toFixed(availableFunds(data))]

\* fetchDashboardData, first await: supabase.auth.getUser()
DashGetUser(c) ==
    /\ c \in calls /\ c.kind = "fetchDashboardData" /\ c.pc = "getUser"
    /\ IF session = NoUser
          THEN /\ calls' = calls \ {c}
               /\ loading' = IF Live(c) THEN FALSE ELSE loading
          ELSE /\ calls' = (calls \ {c}) \cup
                     {[c EXCEPT !.pc = "income", !.user = session,
                                !.acc = EmptyDashboard]}
               /\ UNCHANGED loading
    /\ UNCHANGED <<authVars, dbVars, navVars, pageVars, toast, ops, clockVars>>

\* the select on income_sources runs; its rows are reduced to totalIncome
DashIncome(c) ==
    /\ c \in calls /\ c.kind = "fetchDashboardData" /\ c.pc = "income"
    /\ \E data \in SelectIncomeUnordered(session, c.user) :
          calls' = (calls \ {c}) \cup
              {[c EXCEPT !.pc = "expenses", !.auth = session, !.data = data,
                         !.acc.totalIncome = totalIncome(data)]}
    /\ UNCHANGED <<authVars, dbVars, navVars, loading, pageVars, toast, ops,
                   clockVars>>

\* the select on expenses runs; its rows are reduced to totalExpenses and
\* expensesByCategory
DashExpenses(c) ==
    /\ c \in calls /\ c.kind = "fetchDashboardData" /\ c.pc = "expenses"
    /\ \E data \in SelectExpensesUnordered(session, c.user) :
          calls' = (calls \ {c}) \cup
              {[c EXCEPT !.pc = "savings", !.auth = session, !.data = data,
                         !.acc.totalExpenses = totalExpenses(data),
                         !.acc.expensesByCategory = expensesByCategory(data)]}
    /\ UNCHANGED <<authVars, dbVars, navVars, loading, pageVars, toast, ops,
                   clockVars>>

\* the select on savings_goals runs
DashSavings(c) ==
    /\ c \in calls /\ c.kind = "fetchDashboardData" /\ c.pc = "savings"
    /\ \E data \in SelectSavingsUnordered(session, c.user) :
          calls' = (calls \ {c}) \cup
              {[c EXCEPT !.pc = "resp", !.auth = session, !.data = data,
                         !.acc.totalSavings = totalCurrentSavings(data),
                         !.acc.savingsGoalProgress = savingsGoalProgress(data),
                         !.acc.monthlyTrend =
                             monthlyTrend(c.acc.totalIncome,
                                          c.acc.totalExpenses)]}
    /\ UNCHANGED <<authVars, dbVars, navVars, loading, pageVars, toast, ops,
                   clockVars>>

\* its response arrives: setDashboardData, setLoading(false)
DashResp(c) ==
    /\ c \in calls /\ c.kind = "fetchDashboardData" /\ c.pc = "resp"
    /\ calls' = calls \ {c}
    /\ dashboardData' = IF Live(c) THEN c.acc ELSE dashboardData
    /\ loading' = IF Live(c) THEN FALSE ELSE loading
    /\ UNCHANGED <<authVars, dbVars, navVars, savingsVars, incomeVars,
                   expensesVars, recommendation, toast, ops, clockVars>>

----------------------------------------------------------------------------
(* AI Coach page and the ai-coach edge function *)

\* what the user can type into the question box: a text is the sequence of
\* its characters
QuestionInputs == {<<>>, <<" ">>, <<" ", "h">>}

\* String.prototype.trim
RECURSIVE trim(_)
trim(s) ==
    IF s = <<>> THEN s
    ELSE IF Head(s) = " " THEN trim(Tail(s))
    ELSE IF s[Len(s)] = " " THEN trim(SubSeq(s, 1, Len(s) - 1))
    ELSE s
\* outcomes of the call to the AI gateway: its HTTP status, or 0 when fetch
\* throws
GatewayStatuses == {200, 429, 402, 500, 0}
\* choices[0].message.content of a gateway response
AdviceTexts == {"advice", " Advice "}

Tables == {"income_sources", "expenses", "savings_goals"}

NoData == [income_sources |-> <<>>, expenses |-> <<>>, savings_goals |-> <<>>]

\* mutant: yearly sources are left out of the function's totalIncome
coachTotalIncome_MonthlyOnly(incomeData) ==
    LET step(sum, item) ==
            LET amount == Whole(amountOf(item.amount)) IN
            IF item.frequency = "monthly" THEN FracAdd(sum, amount)
            ELSE sum
        acc_[i \in 0..Len(incomeData)] ==
            IF i = 0 THEN Whole(0) ELSE step(acc_[i - 1], incomeData[i])
    IN  acc_[Len(incomeData)]

\* the function's totalIncome
coachTotalIncome(incomeData) ==
    LET step(sum, item) ==
            LET amount == Whole(amountOf(item.amount)) IN
            IF item.frequency = "yearly"
                THEN FracAdd(sum, FracDiv(amount, Whole(12)))
            ELSE IF item.frequency = "monthly" THEN FracAdd(sum, amount)
            ELSE sum
        acc_[i \in 0..Len(incomeData)] ==
            IF i = 0 THEN Whole(0) ELSE step(acc_[i - 1], incomeData[i])
    IN  acc_[Len(incomeData)]

coachTotalExpenses(expensesData) ==
    LET step(sum, item) == sum + amountOf(item.amount)
        acc_[i \in 0..Len(expensesData)] ==
            IF i = 0 THEN 0 ELSE step(acc_[i - 1], expensesData[i])
    IN  acc_[Len(expensesData)]

\* mutant: a category met for the first time is put in front
coachExpensesByCategory_NewestFirst(expensesData) ==
    LET step(acc, item) ==
            IF \E k \in 1..Len(acc) : acc[k].key = item.category
                THEN [k \in 1..Len(acc) |->
                        IF acc[k].key = item.category
                            THEN [acc[k] EXCEPT !.value =
                                                 @ + amountOf(item.amount)]
                            ELSE acc[k]]
                ELSE <<[key |-> item.category,
                        value |-> 0 + amountOf(item.amount)]>> \o acc
        acc_[i \in 0..Len(expensesData)] ==
            IF i = 0 THEN <<>> ELSE step(acc_[i - 1], expensesData[i])
    IN  acc_[Len(expensesData)]

\* the function's expensesByCategory: an object, as its keys in insertion
\* order with their values; acc[category] = (acc[category] || 0) + amount
coachExpensesByCategory(expensesData) ==
    LET step(acc, item) ==
            IF \E k \in 1..Len(acc) : acc[k].key = item.category
                THEN [k \in 1..Len(acc) |->
                        IF acc[k].key = item.category
                            THEN [acc[k] EXCEPT !.value =
                                                 @ + amountOf(item.amount)]
                            ELSE acc[k]]
                ELSE Append(acc, [key |-> item.category,
                                  value |-> 0 + amountOf(item.amount)])
        acc_[i \in 0..Len(expensesData)] ==
            IF i = 0 THEN <<>> ELSE step(acc_[i - 1], expensesData[i])
    IN  acc_[Len(expensesData)]

\* mutant: the question is trimmed before it is used
userPrompt_Trimmed(userFinancialData, income, spent, byCategory, goals) ==
    IF userFinancialData # <<>> THEN [question |-> trim(userFinancialData)]
    ELSE [monthlyIncome |-> toFixed(income),
          totalExpenses |-> toFixed(Whole(spent)),
          availableFunds |-> toFixed(FracAdd(income, Whole(-spent))),
          expensesByCategory |-> byCategory,
          savingsGoals |-> Len(goals)]

\* userFinancialData || `Here's my current financial situation: ...`
userPrompt(userFinancialData, income, spent, byCategory, goals) ==
    IF userFinancialData # <<>> THEN [question |-> userFinancialData]
    ELSE [monthlyIncome |-> toFixed(income),
          totalExpenses |-> toFixed(Whole(spent)),
          availableFunds |-> toFixed(FracAdd(income, Whole(-spent))),
          expensesByCategory |-> byCategory,
          savingsGoals |-> Len(goals)]

\* what the function computes once Promise.all has resolved with data
CoachLocals(userFinancialData, data) ==
    LET income == coachTotalIncome(data.income_sources)
        spent == coachTotalExpenses(data.expenses)
        byCategory == coachExpensesByCategory(data.expenses)
    IN  [todo |-> {}, data |-> data, totalIncome |-> income,
         totalExpenses |-> spent, expensesByCategory |-> byCategory,
         userPrompt |-> userPrompt(userFinancialData, income, spent,
                                   byCategory, data.savings_goals)]

\* the function's catch block: status 500 with the error's message
errorResponse(message) == [status |-> 500, error |-> message]

\* mutant: the text is trimmed before it is returned
gatewayResponse_Trimmed(status, content) ==
    IF status = 200
        THEN [status |-> 200,
              recommendation |-> IF content = " Advice " THEN "Advice"
                                 ELSE content]
    ELSE IF status = 429
        THEN [status |-> 429,
              error |-> "Rate limit exceeded. Please try again later."]
    ELSE IF status = 402
        THEN [status |-> 402,
              error |-> "Payment required. Please add credits to your Lovable AI workspace."]
    ELSE IF status = 0 THEN errorResponse("error sending request")
    ELSE errorResponse("AI gateway error")

\* the function's response to the answer of the AI gateway
gatewayResponse(status, content) ==
    IF status = 200 THEN [status |-> 200, recommendation |-> content]
    ELSE IF status = 429
        THEN [status |-> 429,
              error |-> "Rate limit exceeded. Please try again later."]
    ELSE IF status = 402
        THEN [status |-> 402,
              error |-> "Payment required. Please add credits to your Lovable AI workspace."]
    ELSE IF status = 0 THEN errorResponse("error sending request")
    ELSE errorResponse("AI gateway error")

\* supabase.functions.invoke: { data, error } of a response; a status
\* outside 2xx gives a FunctionsHttpError and no data
invokeResult(response) ==
    IF response.status = 200
        THEN [data |-> response, error |-> ""]
        ELSE [data |-> NoAcc,
              error |-> "Edge Function returned a non-2xx status code"]

\* the toast getRecommendations shows for a response
toastOf(response) ==
    LET result == invokeResult(response) IN
    IF result.error # "" THEN Failure(result.error)
    ELSE IF "error" \in DOMAIN result.data THEN Failure(result.data.error)
    ELSE Success("AI recommendations generated!")

\* getRecommendations(customQuestion): setLoading(true) and
\* supabase.functions.invoke('ai-coach') with the session's token
getRecommendations(customQuestion) ==
    /\ loading' = TRUE
    /\ calls' = calls \cup
          {[Call(ops + 1, "getRecommendations", "auth", inst) EXCEPT
               !.auth = session, !.question = customQuestion,
               !.form = [userFinancialData |-> customQuestion]]}
    /\ ops' = ops + 1
    /\ UNCHANGED toast

\* the Get Recommendations button
ClickGetRecommendations ==
    /\ route = "ai-coach" /\ ~loading /\ ops < MaxOps
    /\ getRecommendations(<<>>)
    /\ UNCHANGED <<authVars, dbVars, navVars, pageVars, clockVars>>

\* the Ask button: handleAskQuestion
HandleAskQuestion(userQuestion) ==
    /\ route = "ai-coach" /\ ~loading /\ ops < MaxOps
    /\ IF trim(userQuestion) = <<>>
          THEN /\ toast' = Failure("Please enter a question first.")
               /\ ops' = ops + 1
               /\ UNCHANGED <<loading, calls>>
          ELSE getRecommendations(userQuestion)
    /\ UNCHANGED <<authVars, dbVars, navVars, pageVars, clockVars>>

\* ai-coach: supabase.auth.getUser(token).  A token of the current session
\* is valid; a token of a session that has ended since may still be accepted.
CoachAuth(c) ==
    /\ c \in calls /\ c.kind = "getRecommendations" /\ c.pc = "auth"
    /\ \E valid \in {v \in BOOLEAN :
                        /\ c.auth = NoUser => ~v
                        /\ c.auth # NoUser /\ c.auth = session => v} :
          calls' = (calls \ {c}) \cup
              {IF valid
                 THEN [c EXCEPT !.pc = "read", !.user = c.auth,
                                !.acc = [todo |-> Tables, data |-> NoData]]
                 ELSE [c EXCEPT !.pc = "resp",
                                !.acc = errorResponse("Unauthorized")]}
    /\ UNCHANGED <<authVars, dbVars, navVars, loading, pageVars, toast, ops,
                   clockVars>>

\* ai-coach: one of the three selects of Promise.all runs; after the last
\* one the totals and the prompt are computed and the AI gateway is called
CoachRead(c, table) ==
    /\ c \in calls /\ c.kind = "getRecommendations" /\ c.pc = "read"
    /\ table \in c.acc.todo
    /\ \E data \in ServiceRoleSelect(table, c.user) :
          LET all == [c.acc.data EXCEPT ![table] = data] IN
          calls' = (calls \ {c}) \cup
              {IF c.acc.todo = {table}
                 THEN [c EXCEPT !.pc = "fetch", !.data = data,
                                !.outbound = @ + 1,
                                !.acc = CoachLocals(c.form.userFinancialData,
                                                   all)]
                 ELSE [c EXCEPT !.data = data,
                                !.acc = [todo |-> c.acc.todo \ {table},
                                         data |-> all]]}
    /\ UNCHANGED <<authVars, dbVars, navVars, loading, pageVars, toast, ops,
                   clockVars>>

\* mutant: after a failure the gateway is called once more
CoachFetch_Retry(c, status) ==
    /\ c \in calls /\ c.kind = "getRecommendations" /\ c.pc = "fetch"
    /\ status \in GatewayStatuses
    /\ \E content \in AdviceTexts :
          calls' = (calls \ {c}) \cup
                      {IF status # 200 /\ c.outbound < 2
                         THEN [c EXCEPT !.outbound = @ + 1]
                         ELSE [c EXCEPT !.pc = "resp", !.data = <<>>,
                                 !.acc = gatewayResponse(status, content)]}
    /\ UNCHANGED <<authVars, dbVars, navVars, loading, pageVars, toast, ops,
                   clockVars>>

\* ai-coach: the AI gateway answers with a status; the function's response
\* is made from it
CoachFetch(c, status) ==
    /\ c \in calls /\ c.kind = "getRecommendations" /\ c.pc = "fetch"
    /\ status \in GatewayStatuses
    /\ \E content \in AdviceTexts :
          calls' = (calls \ {c}) \cup
                      {[c EXCEPT !.pc = "resp", !.data = <<>>,
                                 !.acc = gatewayResponse(status, content)]}
    /\ UNCHANGED <<authVars, dbVars, navVars, loading, pageVars, toast, ops,
                   clockVars>>

\* the page receives the function's response: functions.invoke gives an
\* error for a status outside 2xx; setRecommendation, toast,
\* setLoading(false)
CoachResp(c) ==
    /\ c \in calls /\ c.kind = "getRecommendations" /\ c.pc = "resp"
    /\ calls' = calls \ {c}
    /\ toast' = toastOf(c.acc)
    /\ recommendation' =
          IF toastOf(c.acc).title = "Success" /\ Live(c)
              THEN invokeResult(c.acc).data.recommendation
              ELSE recommendation
    /\ loading' = IF Live(c) THEN FALSE ELSE loading
    /\ UNCHANGED <<authVars, dbVars, navVars, savingsVars, incomeVars,
                   expensesVars, dashboardData, ops, clockVars>>

----------------------------------------------------------------------------
(* Requests that return an error: the transport or the database refuses    *)
(* the request before any row is read or written, and the handler's catch  *)
(* block runs.                                                             *)

\* error.message of a refused request
RequestError == "request failed"

\* fetchSavingsGoals: the select returns an error; catch shows it, finally
\* lowers loading
FetchGoalsError(c) ==
    /\ c \in calls /\ c.kind = "fetchSavingsGoals" /\ c.pc = "select"
    /\ toast' = Failure(RequestError)
    /\ loading' = IF Live(c) THEN FALSE ELSE loading
    /\ calls' = calls \ {c}
    /\ UNCHANGED <<authVars, dbVars, navVars, pageVars, ops, clockVars>>

\* fetchIncomeSources: the select returns an error; catch shows it, finally
\* lowers loading
FetchIncomeError(c) ==
    /\ c \in calls /\ c.kind = "fetchIncomeSources" /\ c.pc = "select"
    /\ toast' = Failure(RequestError)
    /\ loading' = IF Live(c) THEN FALSE ELSE loading
    /\ calls' = calls \ {c}
    /\ UNCHANGED <<authVars, dbVars, navVars, pageVars, ops, clockVars>>

\* fetchExpenses: the select returns an error; catch shows it, finally
\* lowers loading
FetchExpensesError(c) ==
    /\ c \in calls /\ c.kind = "fetchExpenses" /\ c.pc = "select"
    /\ toast' = Failure(RequestError)
    /\ loading' = IF Live(c) THEN FALSE ELSE loading
    /\ calls' = calls \ {c}
    /\ UNCHANGED <<authVars, dbVars, navVars, pageVars, ops, clockVars>>

\* handleDeleteGoal: the delete returns an error; catch shows it
DeleteGoalError(c) ==
    /\ c \in calls /\ c.kind = "handleDeleteGoal" /\ c.pc = "delete"
    /\ toast' = Failure(RequestError)
    /\ calls' = calls \ {c}
    /\ UNCHANGED <<authVars, dbVars, navVars, loading, pageVars, ops,
                   clockVars>>

\* handleDeleteIncome: the delete returns an error; catch shows it
DeleteIncomeError(c) ==
    /\ c \in calls /\ c.kind = "handleDeleteIncome" /\ c.pc = "delete"
    /\ toast' = Failure(RequestError)
    /\ calls' = calls \ {c}
    /\ UNCHANGED <<authVars, dbVars, navVars, loading, pageVars, ops,
                   clockVars>>

\* handleDeleteExpense: the delete returns an error; catch shows it
DeleteExpenseError(c) ==
    /\ c \in calls /\ c.kind = "handleDeleteExpense" /\ c.pc = "delete"
    /\ toast' = Failure(RequestError)
    /\ calls' = calls \ {c}
    /\ UNCHANGED <<authVars, dbVars, navVars, loading, pageVars, ops,
                   clockVars>>

----------------------------------------------------------------------------
(* The Savings page from its mount on *)

NoView == [at |-> 0, goals |-> <<>>]

InitGoals ==
    {[id |-> 1, user_id |-> "u1", goal_name |-> "trip", target_amount |-> 200,
      current_amount |-> 0, target_date |-> 3],
     [id |-> 2, user_id |-> "u2", goal_name |-> "trip", target_amount |-> 100,
      current_amount |-> 100, target_date |-> 2]}

InitPage(page) ==
    /\ route = page
    /\ inst = 1
    /\ loading = (page # "ai-coach")
    /\ savingsGoals = <<>>
    /\ newGoal = EmptyGoalForm
    /\ incomeSources = <<>>
    /\ newIncome = EmptyIncomeForm
    /\ pageExpenses = <<>>
    /\ newExpense = EmptyExpenseForm
    /\ dashboardData = EmptyDashboard
    /\ recommendation = ""
    /\ calls = MountCalls(page, 1)
    /\ toast = NoToast
    /\ ops = 0

Init ==
    /\ session \in Users \cup {NoUser}
    /\ income_sources = {}
    /\ expenses = {}
    /\ savings_goals = InitGoals
    /\ nextId = 3
    /\ now = 0
    /\ view = NoView
    /\ InitPage("savings")

Next ==
    \/ \E c \in calls : CheckAuth(c)
    \/ \E c \in calls : FetchGoalsGetUser(c)
    \/ \E c \in calls : FetchGoalsSelect(c)
    \/ \E c \in calls : FetchGoalsResp(c)
    \/ SubmitAddGoal
    \/ \E c \in calls : AddGoalGetUser(c)
    \/ \E c \in calls : AddGoalInsert(c)
    \/ \E i \in 1..Len(savingsGoals), input \in ContributionInputs :
          ClickAddContribution(i, input)
    \/ \E c \in calls : UpdateProgress(c)
    \/ \E i \in 1..Len(savingsGoals) : ClickDeleteGoal(i)
    \/ \E c \in calls : DeleteGoal(c)
    \/ \E u \in Users \cup {NoUser} : AuthStateChange(u)

Spec == Init /\ [][Next]_vars

----------------------------------------------------------------------------
(* The Savings page showing a fetched list while time passes *)

PacingPool ==
    {[id |-> i, user_id |-> "u1", goal_name |-> "trip", target_amount |-> t,
      current_amount |-> c, target_date |-> d] :
        i \in {1, 2}, t \in {200000}, c \in {0, 50000, 200000, 250000},
        d \in {0, 1, 90}}

PacingLists ==
    {<<g>> : g \in {r \in PacingPool : r.id = 1}} \cup
    {<<g, h>> : g \in {r \in PacingPool : r.id = 1},
                h \in {r \in PacingPool : r.id = 2 /\ r.current_amount = 0}}

InitPacing ==
    /\ session = "u1"
    /\ income_sources = {}
    /\ expenses = {}
    /\ \E l \in {f \in PacingLists :
                    \A i \in 1..(Len(f) - 1) :
                        f[i].target_date <= f[i + 1].target_date} :
          /\ savingsGoals = l
          /\ savings_goals = {l[i] : i \in 1..Len(l)}
    /\ nextId = 3
    /\ now = 0
    /\ view = NoView
    /\ route = "savings"
    /\ inst = 1
    /\ loading = FALSE
    /\ newGoal = EmptyGoalForm
    /\ incomeSources = <<>>
    /\ newIncome = EmptyIncomeForm
    /\ pageExpenses = <<>>
    /\ newExpense = EmptyExpenseForm
    /\ dashboardData = EmptyDashboard
    /\ recommendation = ""
    /\ calls = {}
    /\ toast = NoToast
    /\ ops = 0

NextPacing ==
    \/ Render
    \/ Tick

SpecPacing == InitPacing /\ [][NextPacing]_vars

----------------------------------------------------------------------------
(* The Dashboard and the AI Coach over stores of every content *)

IncomePool ==
    {[id |-> 1, user_id |-> "u1", source_name |-> "gift", amount |-> 50000,
      frequency |-> "one-time", created_at |-> 0],
     [id |-> 2, user_id |-> "u1", source_name |-> "job", amount |-> 100000,
      frequency |-> "monthly", created_at |-> 0],
     [id |-> 3, user_id |-> "u1", source_name |-> "bonus", amount |-> 100000,
      frequency |-> "yearly", created_at |-> 0],
     [id |-> 5, user_id |-> "u2", source_name |-> "job", amount |-> 70000,
      frequency |-> "monthly", created_at |-> 0]}

ExpensePool ==
    {[id |-> 6, user_id |-> "u1", title |-> "lunch", amount |-> 1000,
      category |-> "Food", expense_date |-> 0],
     [id |-> 7, user_id |-> "u1", title |-> "room", amount |-> 4000,
      category |-> "Hotels", expense_date |-> 0],
     [id |-> 8, user_id |-> "u1", title |-> "dinner", amount |-> 2500,
      category |-> "Food", expense_date |-> 0],
     [id |-> 9, user_id |-> "u2", title |-> "lunch", amount |-> 500,
      category |-> "Food", expense_date |-> 0]}

GoalPool ==
    {[id |-> 10, user_id |-> "u1", goal_name |-> "trip",
      target_amount |-> 200000, current_amount |-> 50000, target_date |-> 3],
     [id |-> 11, user_id |-> "u1", goal_name |-> "car",
      target_amount |-> 100000, current_amount |-> 150000, target_date |-> 3],
     [id |-> 12, user_id |-> "u2", goal_name |-> "trip",
      target_amount |-> 100, current_amount |-> 100, target_date |-> 2]}

\* the stores vary one table at a time around the full pools
InitDashboard ==
    /\ session \in Users
    /\ \/ /\ income_sources \in SUBSET IncomePool
          /\ expenses = ExpensePool /\ savings_goals = GoalPool
       \/ /\ expenses \in SUBSET ExpensePool
          /\ income_sources = IncomePool /\ savings_goals = GoalPool
       \/ /\ savings_goals \in SUBSET GoalPool
          /\ income_sources = IncomePool /\ expenses = ExpensePool
    /\ nextId = 13
    /\ now = 0
    /\ view = NoView
    /\ \E page \in {"dashboard", "ai-coach"} : InitPage(page)

NextDashboard ==
    \/ \E c \in calls : CheckAuth(c)
    \/ \E c \in calls : DashGetUser(c)
    \/ \E c \in calls : DashIncome(c)
    \/ \E c \in calls : DashExpenses(c)
    \/ \E c \in calls : DashSavings(c)
    \/ \E c \in calls : DashResp(c)
    \/ ClickGetRecommendations
    \/ \E q \in QuestionInputs : HandleAskQuestion(q)
    \/ \E c \in calls : CoachAuth(c)
    \/ \E c \in calls, table \in Tables : CoachRead(c, table)
    \/ \E c \in calls, status \in GatewayStatuses : CoachFetch(c, status)
    \/ \E c \in calls : CoachResp(c)

SpecDashboard == InitDashboard /\ [][NextDashboard]_vars

----------------------------------------------------------------------------
(* Every page of the application over a store holding rows of two users *)

InitIncome ==
    {[id |-> 3, user_id |-> "u1", source_name |-> "job", amount |-> 1000,
      frequency |-> "monthly", created_at |-> -1],
     [id |-> 4, user_id |-> "u2", source_name |-> "job", amount |-> 1200,
      frequency |-> "yearly", created_at |-> -1]}

InitExpenses ==
    {[id |-> 5, user_id |-> "u1", title |-> "lunch", amount |-> 50,
      category |-> "Food", expense_date |-> -1],
     [id |-> 6, user_id |-> "u2", title |-> "room", amount |-> 80,
      category |-> "Hotels", expense_date |-> -1],
     [id |-> 7, user_id |-> "u1", title |-> "taxi", amount |-> 30,
      category |-> "Transportation", expense_date |-> -1]}

InitAccess ==
    /\ session \in Users
    /\ income_sources = InitIncome
    /\ expenses = InitExpenses
    /\ savings_goals = InitGoals
    /\ nextId = 8
    /\ now = 0
    /\ view = NoView
    /\ \E page \in Pages : InitPage(page)

NextAccess ==
    \/ Next
    \/ \E c \in calls : FetchIncomeGetUser(c)
    \/ \E c \in calls : FetchIncomeSelect(c)
    \/ \E c \in calls : FetchIncomeResp(c)
    \/ SubmitAddIncome
    \/ \E c \in calls : AddIncomeGetUser(c)
    \/ \E c \in calls : AddIncomeInsert(c)
    \/ \E i \in 1..Len(incomeSources) : ClickDeleteIncome(i)
    \/ \E c \in calls : DeleteIncome(c)
    \/ \E c \in calls : FetchExpensesGetUser(c)
    \/ \E c \in calls : FetchExpensesSelect(c)
    \/ \E c \in calls : FetchExpensesResp(c)
    \/ SubmitAddExpense
    \/ \E c \in calls : AddExpenseGetUser(c)
    \/ \E c \in calls : AddExpenseInsert(c)
    \/ \E i \in 1..Len(pageExpenses) : ClickDeleteExpense(i)
    \/ \E c \in calls : DeleteExpense(c)
    \/ \E c \in calls : DashGetUser(c)
    \/ \E c \in calls : DashIncome(c)
    \/ \E c \in calls : DashExpenses(c)
    \/ \E c \in calls : DashSavings(c)
    \/ \E c \in calls : DashResp(c)
    \/ ClickGetRecommendations
    \/ \E q \in QuestionInputs : HandleAskQuestion(q)
    \/ \E c \in calls : CoachAuth(c)
    \/ \E c \in calls, table \in Tables : CoachRead(c, table)
    \/ \E c \in calls, status \in GatewayStatuses : CoachFetch(c, status)
    \/ \E c \in calls : CoachResp(c)
    \/ \E page \in Pages : Navigate(page)
    \/ HandleSignOut

SpecAccess == InitAccess /\ [][NextAccess]_vars

----------------------------------------------------------------------------
(* Every page of the application, with requests that may return an error *)

NextFailures ==
    \/ NextAccess
    \/ \E c \in calls : FetchGoalsError(c)
    \/ \E c \in calls : FetchIncomeError(c)
    \/ \E c \in calls : FetchExpensesError(c)
    \/ \E c \in calls : DeleteGoalError(c)
    \/ \E c \in calls : DeleteIncomeError(c)
    \/ \E c \in calls : DeleteExpenseError(c)

SpecFailures == InitAccess /\ [][NextFailures]_vars

\* an awaited call of some handler in flight returns
Returns ==
    \E c \in calls :
        \/ CheckAuth(c)
        \/ FetchGoalsGetUser(c) \/ FetchGoalsSelect(c) \/ FetchGoalsResp(c)
        \/ FetchGoalsError(c)
        \/ AddGoalGetUser(c) \/ AddGoalInsert(c)
        \/ UpdateProgress(c)
        \/ DeleteGoal(c) \/ DeleteGoalError(c)
        \/ FetchIncomeGetUser(c) \/ FetchIncomeSelect(c) \/ FetchIncomeResp(c)
        \/ FetchIncomeError(c)
        \/ AddIncomeGetUser(c) \/ AddIncomeInsert(c)
        \/ DeleteIncome(c) \/ DeleteIncomeError(c)
        \/ FetchExpensesGetUser(c) \/ FetchExpensesSelect(c)
        \/ FetchExpensesResp(c) \/ FetchExpensesError(c)
        \/ AddExpenseGetUser(c) \/ AddExpenseInsert(c)
        \/ DeleteExpense(c) \/ DeleteExpenseError(c)
        \/ DashGetUser(c) \/ DashIncome(c) \/ DashExpenses(c)
        \/ DashSavings(c) \/ DashResp(c)
        \/ CoachAuth(c)
        \/ \E table \in Tables : CoachRead(c, table)
        \/ \E status \in GatewayStatuses : CoachFetch(c, status)
        \/ CoachResp(c)

\* each page from its mount on while the session may change under it,
\* without the add, contribution and delete handlers (none of which touches
\* a loading flag), with every awaited call returning in the end
InitLoading ==
    /\ session \in Users \cup {NoUser}
    /\ income_sources = InitIncome
    /\ expenses = {r \in InitExpenses : r.id < 7}
    /\ savings_goals = InitGoals
    /\ nextId = 8
    /\ now = 0
    /\ view = NoView
    /\ \E page \in Pages : InitPage(page)

NextLoading ==
    \/ \E c \in calls : CheckAuth(c)
    \/ \E c \in calls : FetchGoalsGetUser(c)
    \/ \E c \in calls : FetchGoalsSelect(c)
    \/ \E c \in calls : FetchGoalsResp(c)
    \/ \E c \in calls : FetchGoalsError(c)
    \/ \E c \in calls : FetchIncomeGetUser(c)
    \/ \E c \in calls : FetchIncomeSelect(c)
    \/ \E c \in calls : FetchIncomeResp(c)
    \/ \E c \in calls : FetchIncomeError(c)
    \/ \E c \in calls : FetchExpensesGetUser(c)
    \/ \E c \in calls : FetchExpensesSelect(c)
    \/ \E c \in calls : FetchExpensesResp(c)
    \/ \E c \in calls : FetchExpensesError(c)
    \/ \E c \in calls : DashGetUser(c)
    \/ \E c \in calls : DashIncome(c)
    \/ \E c \in calls : DashExpenses(c)
    \/ \E c \in calls : DashSavings(c)
    \/ \E c \in calls : DashResp(c)
    \/ ClickGetRecommendations
    \/ \E q \in QuestionInputs : HandleAskQuestion(q)
    \/ \E c \in calls : CoachAuth(c)
    \/ \E c \in calls, table \in Tables : CoachRead(c, table)
    \/ \E c \in calls, status \in GatewayStatuses : CoachFetch(c, status)
    \/ \E c \in calls : CoachResp(c)
    \/ \E u \in Users \cup {NoUser} : AuthStateChange(u)

SpecLoading == InitLoading /\ [][NextLoading]_vars /\ WF_vars(Returns)

----------------------------------------------------------------------------
(* Properties *)

\* a handleUpdateProgress call whose update the database applies in this step
Applied(c) ==
    /\ c \in calls /\ c \notin calls'
    /\ c.kind = "handleUpdateProgress"
    /\ toast' = Success("Progress updated.")

\* C3: every successful contribution of a positive amount a to a goal of the
\* signed-in user raises the stored current_amount by exactly a (so two
\* contributions of 100 to a goal at 0 leave 200), in every interleaving of
\* the contribution handlers with the refetches.
C3_ContributionAdds ==
    [][\A c \in calls :
         Applied(c) /\ c.amt > 0 =>
           \A r \in savings_goals :
             r.id = c.id /\ r.user_id = session =>
               \E q \in savings_goals' :
                 q.id = r.id /\ q.current_amount = r.current_amount + c.amt]_vars

\* C8: a contribution whose amount is not strictly positive (zero, empty
\* input, negative) is rejected: it leaves every stored current_amount as
\* it was.
C8_NonPositiveRejected ==
    [][\A c \in calls :
         c.kind = "handleUpdateProgress" /\ c.amt <= 0 /\ c \notin calls' =>
           savings_goals' = savings_goals]_vars

\* C9: every stored savings goal has target_amount > 0 and
\* current_amount >= 0, whatever goals are created and whatever is
\* contributed; current_amount may exceed target_amount.
C9_GoalAmounts ==
    \A r \in savings_goals : r.target_amount > 0 /\ r.current_amount >= 0

\* C9 witness: a contribution has taken a goal beyond its target
C9_Overshoot ==
    \E r \in savings_goals : r.current_amount > r.target_amount

\* days_remaining: the difference between the target date and the moment t in
\* whole days, rounded up
DaysRemaining(date, t) ==
    CHOOSE k \in (date - t - 1)..(date + 1) :
        /\ k * TicksPerDay >= date * TicksPerDay - t
        /\ (k - 1) * TicksPerDay < date * TicksPerDay - t

\* (target_amount - current_amount) / (days_remaining / 30) as a fraction
PacingFormula(e, t) ==
    [n |-> 30 * (e.target_amount - e.current_amount),
     d |-> DaysRemaining(e.target_date, t)]

\* C4 as claimed: for every rendered goal with days_remaining > 0 a pacing
\* figure is shown and equals
\* (target_amount - current_amount) / (days_remaining / 30).
C4_PacingWheneverDaysRemain ==
    \A i \in 1..Len(view.goals) :
        LET e == view.goals[i] IN
        DaysRemaining(e.target_date, view.at) > 0 =>
            /\ e.pacing # <<>>
            /\ FracEq(e.pacing[1], PacingFormula(e, view.at))

\* C4 as amended: for every rendered goal with days_remaining > 0 and
\* current_amount < target_amount a pacing figure is shown and equals
\* (target_amount - current_amount) / (days_remaining / 30); with
\* days_remaining > 0 and current_amount >= target_amount none is shown.
C4_PacingWhenShortOfTarget ==
    \A i \in 1..Len(view.goals) :
        LET e == view.goals[i] IN
        DaysRemaining(e.target_date, view.at) > 0 =>
            IF e.current_amount < e.target_amount
                THEN /\ e.pacing # <<>>
                     /\ FracEq(e.pacing[1], PacingFormula(e, view.at))
                ELSE e.pacing = <<>>

\* C4 witness: target 2000.00, current 500.00 and 90 days remaining are
\* rendered with the figure 500.00
C4_Example ==
    \E i \in 1..Len(view.goals) :
        LET e == view.goals[i] IN
        /\ e.target_amount = 200000 /\ e.current_amount = 50000
        /\ DaysRemaining(e.target_date, view.at) = 90
        /\ e.pacing # <<>>
        /\ FracEq(e.pacing[1], Whole(50000))

\* C5: for every rendered goal with days_remaining <= 0 (due today or past
\* due) no pacing figure is shown.
C5_NoPacingWhenDue ==
    \A i \in 1..Len(view.goals) :
        LET e == view.goals[i] IN
        DaysRemaining(e.target_date, view.at) <= 0 => e.pacing = <<>>

\* C5 witness: a goal short of its target is rendered past its due date,
\* without a pacing figure
C5_PastDue ==
    \E i \in 1..Len(view.goals) :
        LET e == view.goals[i] IN
        /\ DaysRemaining(e.target_date, view.at) < 0
        /\ e.current_amount < e.target_amount
        /\ e.pacing = <<>>

\* the elements of a list, and the sum of a column over a set of rows
RowsOf(seq) == {seq[i] : i \in 1..Len(seq)}

RECURSIVE SumOf(_, _)
SumOf(S, column) ==
    IF S = {} THEN 0
    ELSE LET r == CHOOSE x \in S : TRUE
         IN  r[column] + SumOf(S \ {r}, column)

\* the sum of the values of a per-category mapping
RECURSIVE SumOfValues(_)
SumOfValues(mapping) ==
    IF mapping = <<>> THEN 0
    ELSE Head(mapping).value + SumOfValues(Tail(mapping))

\* sum of the monthly amounts plus one twelfth of the sum of the yearly ones
MonthlyPlusYearlyTwelfth(S) ==
    Frac(12 * SumOf({r \in S : r.frequency = "monthly"}, "amount")
            + SumOf({r \in S : r.frequency = "yearly"}, "amount"), 12)

\* the Dashboard shows the figures of its fetch for the signed-in user
DashboardShown == route = "dashboard" /\ ~loading /\ session \in Users

\* C1: the normalized monthly income total of a list of income records is the
\* sum of its monthly amounts plus one twelfth of the sum of its yearly
\* amounts (one-time records add nothing, the empty list gives 0), on the
\* Dashboard and in the ai-coach function.
C1_NormalizedMonthlyIncome ==
    /\ DashboardShown =>
          FracEq(dashboardData.totalIncome,
                 MonthlyPlusYearlyTwelfth(
                     {r \in income_sources : r.user_id = session}))
    /\ \A c \in calls :
          c.kind = "fetchDashboardData" /\ c.pc = "expenses" =>
              FracEq(c.acc.totalIncome, MonthlyPlusYearlyTwelfth(RowsOf(c.data)))
    /\ \A c \in calls :
          c.kind = "getRecommendations" /\ c.pc = "fetch" =>
              FracEq(c.acc.totalIncome,
                     MonthlyPlusYearlyTwelfth(RowsOf(c.acc.data.income_sources)))

\* C1 witness: the Dashboard shows 1000.00 + 1000.00 / 12 for a one-time, a
\* monthly and a yearly source
C1_MixedFrequencies ==
    /\ DashboardShown
    /\ {r.frequency : r \in {x \in income_sources : x.user_id = session}}
          = Frequencies
    /\ FracEq(dashboardData.totalIncome, Frac(1300000, 12))

\* C2: the grand total of a list of expense records equals the sum of the
\* values of the per-category mapping built from the same list, on the
\* Dashboard and in the ai-coach function.
C2_TotalIsSumOfCategories ==
    /\ DashboardShown =>
          /\ SumOfValues(dashboardData.expensesByCategory)
                = dashboardData.totalExpenses
          /\ dashboardData.totalExpenses
                = SumOf({r \in expenses : r.user_id = session}, "amount")
    /\ \A c \in calls :
          c.kind = "fetchDashboardData" /\ c.pc = "savings" =>
              /\ SumOfValues(c.acc.expensesByCategory) = c.acc.totalExpenses
              /\ c.acc.totalExpenses = SumOf(RowsOf(c.data), "amount")
    /\ \A c \in calls :
          c.kind = "getRecommendations" /\ c.pc = "fetch" =>
              /\ SumOfValues(c.acc.expensesByCategory) = c.acc.totalExpenses
              /\ c.acc.totalExpenses
                    = SumOf(RowsOf(c.acc.data.expenses), "amount")

\* C2 witness: two expenses of one category and one of another are shown as
\* two entries whose values add up to the total
C2_SharedCategory ==
    /\ DashboardShown
    /\ Len(dashboardData.expensesByCategory) = 2
    /\ Cardinality({r \in expenses : r.user_id = session}) = 3
    /\ dashboardData.totalExpenses = 7500

\* C10: the aggregate savings progress is (sum of current_amount / sum of
\* target_amount) x 100 over the user's goals, and 0 when the sum of the
\* target amounts is 0, as it is without goals.
C10_AggregateProgress ==
    /\ DashboardShown =>
          LET S == {r \in savings_goals : r.user_id = session} IN
          IF SumOf(S, "target_amount") = 0
              THEN FracEq(dashboardData.savingsGoalProgress, Whole(0))
              ELSE FracEq(dashboardData.savingsGoalProgress,
                          Frac(100 * SumOf(S, "current_amount"),
                               SumOf(S, "target_amount")))
    /\ \A c \in calls :
          c.kind = "fetchDashboardData" /\ c.pc = "resp" =>
              LET S == RowsOf(c.data) IN
              IF SumOf(S, "target_amount") = 0
                  THEN FracEq(c.acc.savingsGoalProgress, Whole(0))
                  ELSE FracEq(c.acc.savingsGoalProgress,
                              Frac(100 * SumOf(S, "current_amount"),
                                   SumOf(S, "target_amount")))

\* C10 witness: goals at 500.00 of 2000.00 and 1500.00 of 1000.00 are shown
\* as 66.67 percent
C10_TwoGoals ==
    /\ DashboardShown
    /\ Cardinality({r \in savings_goals : r.user_id = session}) = 2
    /\ FracEq(dashboardData.savingsGoalProgress, Frac(200, 3))

\* the rows a step changes or removes, and the rows it adds or changes to
RowsTouched ==
    [income_sources |-> income_sources \ income_sources',
     expenses |-> expenses \ expenses',
     savings_goals |-> savings_goals \ savings_goals']

RowsWritten ==
    [income_sources |-> income_sources' \ income_sources,
     expenses |-> expenses' \ expenses,
     savings_goals |-> savings_goals' \ savings_goals]

\* every row a request was answered with belongs to the identity the
\* request was authenticated as
ReadIsolation ==
    \A c \in calls :
        /\ \A r \in RowsOf(c.data) : r.user_id = c.auth
        /\ c.kind = "getRecommendations" /\ c.pc \in {"read", "fetch"} =>
              \A table \in Tables :
                  \A r \in RowsOf(c.acc.data[table]) : r.user_id = c.auth

\* a step changes, removes and adds only rows of the user whose session the
\* request carries
WriteIsolation ==
    \A table \in Tables :
        /\ \A r \in RowsTouched[table] : r.user_id = session
        /\ \A r \in RowsWritten[table] : r.user_id = session

\* C6: a user reads, updates and deletes only rows whose user_id is their
\* own identity and inserts only rows with their own user_id: whatever is
\* done under the session of one user, the rows of every other user stay as
\* they are and none of them is returned, by the database or by the ai-coach
\* function.
C6_RowIsolation == []ReadIsolation /\ [][WriteIsolation]_vars

\* C6 witness: the signed-in user has changed rows of their own and is
\* answered with their own rows only, while every row of the other user is
\* as it was
C6_OwnRowsOnly ==
    \E c \in calls :
        /\ c.kind = "fetchSavingsGoals" /\ c.pc = "resp"
        /\ c.auth = session /\ c.data # <<>>
        /\ \A r \in RowsOf(c.data) : r.user_id = session
        /\ {r \in savings_goals : r.user_id = session}
              # {r \in InitGoals : r.user_id = session}
        /\ {r \in savings_goals : r.user_id # session}
              = {r \in InitGoals : r.user_id # session}
        /\ {r \in income_sources : r.user_id # session}
              = {r \in InitIncome : r.user_id # session}
        /\ {r \in expenses : r.user_id # session}
              = {r \in InitExpenses : r.user_id # session}

\* the primary keys in use, and those of the records deleted so far (keys
\* are handed out in sequence and the store starts with every key in use)
IdsInUse ==
    {r.id : r \in income_sources} \cup {r.id : r \in expenses}
        \cup {r.id : r \in savings_goals}

Gone == (1..(nextId - 1)) \ IdsInUse

\* a delete handler's request is executed in this step
DeleteStep(c) ==
    /\ c \in calls /\ c \notin calls'
    /\ c.kind \in {"handleDeleteGoal", "handleDeleteIncome",
                   "handleDeleteExpense"}

\* the rows of table that the request of call c, run now, is entitled to
StoredFor(c, table) ==
    IF c.auth = c.user THEN {r \in table : r.user_id = c.user} ELSE {}

\* the three tables by name
Store ==
    [income_sources |-> income_sources, expenses |-> expenses,
     savings_goals |-> savings_goals]

\* a delete executed under its owner's session removes the record, and a
\* delete changes no other row of any user
DeleteRemoves ==
    \A c \in calls :
        DeleteStep(c) =>
            \A table \in Tables :
                /\ \A r \in Store[table] :
                      r.id = c.id /\ r.user_id = session => r.id \in Gone'
                /\ \A r \in RowsTouched[table] :
                      r.id = c.id /\ r.user_id = session
                /\ RowsWritten[table] = {}

\* every select answered in this step returns stored rows only, none of a
\* deleted record
ListingsFresh ==
    \A c \in calls' \ calls :
        \A r \in RowsOf(c.data) : r.id \in IdsInUse' /\ r.id \notin Gone'

\* the figures the Dashboard computes in this step are those of the rows
\* stored for the user now
AggregationsFresh ==
    \A c \in calls' \ calls :
        c.kind = "fetchDashboardData" =>
            /\ c.pc = "expenses" =>
                  FracEq(c.acc.totalIncome,
                         MonthlyPlusYearlyTwelfth(
                             StoredFor(c, income_sources')))
            /\ c.pc = "savings" =>
                  /\ c.acc.totalExpenses
                        = SumOf(StoredFor(c, expenses'), "amount")
                  /\ SumOfValues(c.acc.expensesByCategory)
                        = SumOf(StoredFor(c, expenses'), "amount")
            /\ c.pc = "resp" =>
                  LET S == StoredFor(c, savings_goals') IN
                  /\ c.acc.totalSavings = SumOf(S, "current_amount")
                  /\ S # {} =>
                        FracEq(c.acc.savingsGoalProgress,
                               Frac(100 * SumOf(S, "current_amount"),
                                    SumOf(S, "target_amount")))

NearestCent(x) ==
    LET near == ((x.n \div x.d) - 1)..((x.n \div x.d) + 2)
        dist(k) == Abs(x.n - k * x.d)
    IN  CHOOSE k \in near :
            \A j \in near :
                \/ dist(k) < dist(j)
                \/ dist(k) = dist(j) /\ Abs(k) >= Abs(j)

\* an advice request whose prompt has been built
PromptBuilt(c) ==
    c \in calls /\ c.kind = "getRecommendations" /\ c.pc = "fetch"

\* the generated summary of the rows read: income, expenses, available
\* funds, the total of every category that occurs, the number of goals
IsSummaryOf(prompt, data) ==
    LET income == MonthlyPlusYearlyTwelfth(RowsOf(data.income_sources))
        spent == SumOf(RowsOf(data.expenses), "amount")
        byCategory == prompt.expensesByCategory
    IN  /\ prompt.monthlyIncome = NearestCent(income)
        /\ prompt.totalExpenses = spent
        /\ prompt.availableFunds
              = NearestCent(Frac(income.n - spent * income.d, income.d))
        /\ {byCategory[k].key : k \in 1..Len(byCategory)}
              = {r.category : r \in RowsOf(data.expenses)}
        /\ \A k \in 1..Len(byCategory) :
              byCategory[k].value
                  = SumOf({r \in RowsOf(data.expenses) :
                              r.category = byCategory[k].key}, "amount")
        /\ prompt.savingsGoals = Cardinality(RowsOf(data.savings_goals))

\* C11: the user prompt of an advice request is the question the user
\* supplied, character for character, whenever one was supplied, and
\* otherwise the generated summary of total monthly income, total expenses,
\* available funds, the category totals and the number of savings goals.
C11_PromptIsQuestionOrSummary ==
    \A c \in calls :
        PromptBuilt(c) =>
            IF c.question # <<>>
                THEN c.acc.userPrompt = [question |-> c.question]
                ELSE /\ DOMAIN c.acc.userPrompt
                          = {"monthlyIncome", "totalExpenses",
                             "availableFunds", "expensesByCategory",
                             "savingsGoals"}
                     /\ IsSummaryOf(c.acc.userPrompt, c.acc.data)

\* C11 witness: a question typed with a leading blank is the prompt, blank
\* included
C11_QuestionVerbatim ==
    \E c \in calls :
        /\ PromptBuilt(c)
        /\ c.question = <<" ", "h">>
        /\ c.acc.userPrompt = [question |-> <<" ", "h">>]

\* the failures of an advice request by category, each with the response
\* the function gives
FailureOutcomes ==
    {[category |-> "rate-limited", response |-> gatewayResponse(429, "")],
     [category |-> "payment-required", response |-> gatewayResponse(402, "")],
     [category |-> "unauthorized", response |-> errorResponse("Unauthorized")],
     [category |-> "generic", response |-> gatewayResponse(500, "")]}

\* the page receives the response of advice request c in this step
AdviceAnswered(c) ==
    /\ c \in calls /\ c \notin calls'
    /\ c.kind = "getRecommendations" /\ c.pc = "resp"

\* C12: a failed advice request reaches the user in a category of its own:
\* the response of the function and the toast of the page for a rate-limited,
\* a payment-required, an unauthorized and a generic failure are four
\* different messages.
C12_FailuresDistinct ==
    [][\A c \in calls :
         AdviceAnswered(c) =>
           \A o, p \in FailureOutcomes :
             c.acc = o.response /\ p.category # o.category =>
               /\ p.response.error # o.response.error
               /\ toastOf(p.response) # toast']_vars

\* C13: an advice request calls the external advice service at most once;
\* when the page has its answer, failed or not, the request is over and
\* nothing calls the service for it again.
C13_AtMostOneOutboundCall ==
    /\ [](\A c \in calls : c.outbound <= 1)
    /\ [][\A c \in calls :
            AdviceAnswered(c) =>
              \A d \in calls' :
                d.kind = "getRecommendations" => d.cid # c.cid]_vars

\* C13 witness: the one call of a request has failed with status 429 and the
\* function has answered
C13_FailedOnce ==
    \E c \in calls :
        /\ c.kind = "getRecommendations" /\ c.pc = "resp"
        /\ c.acc.status = 429
        /\ c.outbound = 1

\* C14: what is done without an authenticated identity has no effect: while
\* the browser has no session no row is inserted, updated or deleted and no
\* select of a page returns a row, and an advice request whose token is not
\* accepted (as with no session) reads no row and calls the advice service
\* not at all.
C14_NoIdentityNoEffect ==
    /\ [][session = NoUser =>
            /\ income_sources' = income_sources
            /\ expenses' = expenses
            /\ savings_goals' = savings_goals
            /\ \A c \in calls' \ calls :
                  c.kind # "getRecommendations" => c.data = <<>>]_vars
    /\ [](\A c \in calls :
            c.kind = "getRecommendations" =>
                /\ c.auth = NoUser => c.user = NoUser
                /\ c.user = NoUser =>
                      /\ c.pc \in {"auth", "resp"}
                      /\ c.data = <<>>
                      /\ c.outbound = 0)

\* C14 witness: a delete was sent after the session had ended; the goal is
\* still stored
C14_DeleteWithoutSession ==
    /\ session = NoUser
    /\ toast = Success("Savings goal deleted.")
    /\ savings_goals = InitGoals

\* call c ends in this step and nothing continues it
Ends(c) ==
    /\ c \in calls /\ c \notin calls'
    /\ \A d \in calls' \ calls : d.cid # c.cid

\* an add handler of the page on screen ends because getUser gave no user,
\* with no checkAuth under way that would still redirect
EndsWithoutUser(c) ==
    /\ Ends(c)
    /\ Live(c)
    /\ c.kind \in {"handleAddGoal", "handleAddIncome", "handleAddExpense"}
    /\ c.pc = "getUser"
    /\ \A d \in calls : d.kind # "checkAuth"

\* an insert or update ends because the database refused it
EndsRefused(c) ==
    /\ Ends(c)
    /\ \/ c.kind \in {"handleAddGoal", "handleAddIncome", "handleAddExpense"}
          /\ c.pc = "insert"
       \/ c.kind = "handleUpdateProgress"

\* C15: an operation of a page that ends in an error (the user's identity is
\* missing, the database refuses the request) shows the user a toast with
\* the error or takes them to the sign-in page.
C15_ErrorsAreShown ==
    [][\A c \in calls :
         EndsWithoutUser(c) \/ EndsRefused(c) =>
           \/ toast'.title = "Error" /\ toast' # toast
           \/ route' = "auth" /\ route # "auth"]_vars


\* the insert of handler c is sent in this step
Inserts(c) ==
    /\ c \in calls /\ c \notin calls'
    /\ c.kind \in {"handleAddGoal", "handleAddIncome", "handleAddExpense"}
    /\ c.pc = "insert"

\* the row handler c sends breaks a CHECK constraint named in C16
BreaksCheck(c) ==
    \/ /\ c.kind = "handleAddExpense"
       /\ \/ parseFloat(c.form.amount) < 0
          \/ c.form.category \notin CATEGORIES
    \/ /\ c.kind = "handleAddIncome"
       /\ \/ parseFloat(c.form.amount) < 0
          \/ c.form.frequency \notin Frequencies
    \/ /\ c.kind = "handleAddGoal"
       /\ \/ ~(parseFloat(c.form.target_amount) > 0)
          \/ parseFloat(c.form.current_amount) < 0

Lists(d, data) ==
    /\ d \in calls
    /\ d.kind \in {"fetchSavingsGoals", "fetchExpenses", "fetchIncomeSources"}
    /\ d.pc = "select"
    /\ [d EXCEPT !.pc = "resp", !.auth = session, !.data = data] \in calls'

\* the rows of user uid in the collection a listing call of this kind reads
Collection(kind, uid) ==
    {r \in (CASE kind = "fetchSavingsGoals" -> savings_goals
              [] kind = "fetchExpenses" -> expenses
              [] kind = "fetchIncomeSources" -> income_sources) :
        r.user_id = uid}

\* listing call c has its answer, the answer has not reached the page yet,
\* and the collection still holds exactly the rows c was given
ListedBefore(c, d) ==
    /\ c \in calls /\ c.pc = "resp"
    /\ c.kind \in {"fetchSavingsGoals", "fetchExpenses", "fetchIncomeSources"}
    /\ c.kind = d.kind
    /\ c.user = d.user /\ c.auth = c.user /\ session = c.user
    /\ RowsOf(c.data) = Collection(c.kind, c.user)

\* C17: two listings of one collection for one user over the same stored rows
\* return the rows in the same order, rows with equal sort keys included
C17_SameOrderTwice ==
    [][\A c, d \in calls :
         ListedBefore(c, d) =>
           \A data \in {x.data : x \in calls'} :
              Lists(d, data) => data = c.data]_vars

\* the update of contribution handler c reaches the database in this step
Writes(c) ==
    /\ c \in calls /\ c \notin calls'
    /\ c.kind = "handleUpdateProgress"
    /\ c.pc = "update"

\* C18: of two concurrent updates of one goal by its owner the one applied
\* last decides the stored current_amount: every update that passes the
\* CHECK constraints is applied, whatever the row holds by then, and it
\* stores exactly the value it carries
C18_LastWriteWins ==
    [][\A c \in calls, r \in savings_goals :
         /\ Writes(c)
         /\ r.id = c.id /\ r.user_id = session
         /\ parseFloat(c.val) >= 0
         =>
         /\ toast' = Success("Progress updated.")
         /\ savings_goals' =
              (savings_goals \ {r}) \cup
                 {[r EXCEPT !.current_amount = parseFloat(c.val)]}]_vars

\* two contributions to the goal shown at 0 were both applied, their
\* refetches are still under way, and the goal holds 100
C18_TwoUpdatesOneValue ==
    /\ \E r \in savings_goals : r.id = 1 /\ r.current_amount = 100
    /\ savings_goals \ InitGoals # {}
    /\ Cardinality(savings_goals) = Cardinality(InitGoals)
    /\ \E c, d \in calls :
          /\ c.cid = 1 /\ d.cid = 2
          /\ c.kind = "fetchSavingsGoals" /\ d.kind = "fetchSavingsGoals"
    /\ \A i \in 1..Len(savingsGoals) : savingsGoals[i].current_amount = 0
    /\ savingsGoals # <<>>

\* income, expenses, available funds and category totals of a summary
SummaryFigures(income, spent, funds, byCategory) ==
    [totalIncome |-> income, totalExpenses |-> spent, availableFunds |-> funds,
     byCategory |-> byCategory]

\* the figures in the summary of advice request c
FiguresOfSummary(prompt) ==
    SummaryFigures(prompt.monthlyIncome, prompt.totalExpenses,
                   prompt.availableFunds,
                   {<<e.key, e.value>> :
                       e \in RowsOf(prompt.expensesByCategory)})

\* the figures the Dashboard shows for data
FiguresOfDashboard(data) ==
    SummaryFigures(StatsCards(data).totalIncome, StatsCards(data).totalExpenses,
                   StatsCards(data).availableFunds,
                   {<<e.name, e.value>> : e \in RowsOf(data.expensesByCategory)})

\* what the Dashboard computes from one answer to each of its reads
DashboardOf(incomeData, expensesData) ==
    [totalIncome |-> totalIncome(incomeData),
     totalExpenses |-> totalExpenses(expensesData),
     expensesByCategory |-> expensesByCategory(expensesData)]

\* C19: over the same stored rows of a user the monthly income, the total
\* expenses, the available funds and the category totals of the generated
\* summary are the ones the Dashboard computes and shows, in whatever order
\* the reads of the two return the rows
C19_SummaryMatchesDashboard ==
    /\ \A c \in calls :
          PromptBuilt(c) /\ c.question = <<>> =>
             \A X \in SelectIncomeUnordered(c.user, c.user),
                Y \in SelectExpensesUnordered(c.user, c.user) :
                FiguresOfSummary(c.acc.userPrompt)
                    = FiguresOfDashboard(DashboardOf(X, Y))
    /\ DashboardShown =>
          \A X \in ServiceRoleSelect("income_sources", session),
             Y \in ServiceRoleSelect("expenses", session) :
             FiguresOfDashboard(dashboardData)
                 = FiguresOfSummary(
                      userPrompt(<<>>, coachTotalIncome(X),
                                 coachTotalExpenses(Y),
                                 coachExpensesByCategory(Y), <<>>))

\* C19 witness: the summary for a monthly and a yearly source and expenses of
\* two categories carries 1083.33, 75.00 and 1008.33
C19_SummaryOfMixedRows ==
    \E c \in calls :
        /\ PromptBuilt(c) /\ c.question = <<>>
        /\ c.acc.userPrompt.monthlyIncome = 108333
        /\ c.acc.userPrompt.totalExpenses = 7500
        /\ c.acc.userPrompt.availableFunds = 100833
        /\ Len(c.acc.userPrompt.expensesByCategory) = 2

\* the position at which category first occurs in the list input
FirstOccurrence(input, category) ==
    CHOOSE i \in 1..Len(input) :
        /\ input[i].category = category
        /\ \A j \in 1..(i - 1) : input[j].category # category

\* names has one entry for each category of input and no other, ordered by
\* the categories' first occurrences in input
InFirstOccurrenceOrder(names, input) ==
    /\ {names[k] : k \in 1..Len(names)} = {r.category : r \in RowsOf(input)}
    /\ \A k, l \in 1..Len(names) :
          k < l =>
             FirstOccurrence(input, names[k]) < FirstOccurrence(input, names[l])

\* C20: the per-category mapping has exactly one entry for each category that
\* occurs in the input and none for any other, in the order in which the
\* categories first occur in the input, on the Dashboard and in the ai-coach
\* function
C20_OneEntryPerCategoryInOrder ==
    /\ \A c \in calls :
          c.kind = "fetchDashboardData" /\ c.pc = "savings" =>
             InFirstOccurrenceOrder(
                 [k \in 1..Len(c.acc.expensesByCategory) |->
                     c.acc.expensesByCategory[k].name], c.data)
    /\ \A c \in calls :
          c.kind = "getRecommendations" /\ c.pc = "fetch" =>
             InFirstOccurrenceOrder(
                 [k \in 1..Len(c.acc.expensesByCategory) |->
                     c.acc.expensesByCategory[k].key], c.acc.data.expenses)

\* C20 witness: Hotels, Food, Food gives the entries Hotels and Food, in
\* that order
C20_HotelsBeforeFood ==
    \E c \in calls :
        /\ c.kind = "fetchDashboardData" /\ c.pc = "savings"
        /\ Len(c.data) = 3 /\ c.data[1].category = "Hotels"
        /\ Len(c.acc.expensesByCategory) = 2
        /\ c.acc.expensesByCategory[1].name = "Hotels"
        /\ c.acc.expensesByCategory[2].name = "Food"

\* the offsets from UTC, in ticks, of the clocks a browser may run on
ZoneOffsets == {-1, 0, 1}

\* the calendar day of the moment t on a clock z ticks ahead of UTC
LocalDay(t, z) == (t + z) \div TicksPerDay

\* C21: days_remaining is the difference between the target date and the
\* current moment in whole days, rounded up; a goal due tomorrow has
\* days_remaining = 1 at every moment of today and a goal due today or earlier
\* has days_remaining <= 0, today being the day of the user's calendar
C21_DaysRemaining ==
    \A z \in ZoneOffsets :
        \A i \in 1..Len(view.goals) :
            LET e == view.goals[i]
                days == daysUntilTarget(e, view.at)
                today == LocalDay(view.at, z)
            IN  /\ days = DaysRemaining(e.target_date, view.at)
                /\ e.target_date = today + 1 => days = 1
                /\ e.target_date <= today => days <= 0

\* the same with every calendar on UTC
C21_DaysRemainingUTC ==
    \A i \in 1..Len(view.goals) :
        LET e == view.goals[i]
            days == daysUntilTarget(e, view.at)
            today == LocalDay(view.at, 0)
        IN  /\ days = DaysRemaining(e.target_date, view.at)
            /\ e.target_date = today + 1 => days = 1
            /\ e.target_date <= today => days <= 0

\* the gateway answers advice request c with status 200 in this step
GatewayAnswers(c) ==
    /\ c \in calls /\ c.kind = "getRecommendations" /\ c.pc = "fetch"
    /\ \E d \in calls' \ calls :
          d.cid = c.cid /\ d.pc = "resp" /\ d.acc.status = 200

\* C22: after a successful gateway call the recommendation the function
\* returns is the text of the gateway's answer, and the recommendation the
\* page displays is the one the function returned, character for character
C22_AdviceUnmodified ==
    /\ [](\A content \in AdviceTexts :
            invokeResult(gatewayResponse(200, content)).data.recommendation
                = content)
    /\ [][\A c \in calls :
            /\ GatewayAnswers(c) =>
                  \A d \in calls' \ calls : d.acc.recommendation \in AdviceTexts
            /\ AdviceAnswered(c) /\ c.acc.status = 200 =>
                  /\ toast' = Success("AI recommendations generated!")
                  /\ Live(c) => recommendation' = c.acc.recommendation]_vars

\* C22 witness: an answer with blanks around it is displayed with its blanks
C22_BlanksKept ==
    /\ route = "ai-coach" /\ ~loading
    /\ toast = Success("AI recommendations generated!")
    /\ recommendation = " Advice "

\* the list is in ascending (dir = 1) or descending (dir = -1) order of key
SortedBy(list, key, dir) ==
    \A i \in 1..(Len(list) - 1) : dir * list[i][key] <= dir * list[i + 1][key]

\* every row of the list belongs to uid
OwnedBy(list, uid) == \A i \in 1..Len(list) : list[i].user_id = uid

\* C23: every listing a page receives and every list it displays is sorted
\* by its key (income sources by created_at descending, expenses by
\* expense_date descending, savings goals by target_date ascending) and
\* holds only rows of the user who asked for it
C23_ListingsSortedAndOwned ==
    /\ \A c \in calls :
          c.pc = "resp" =>
            /\ c.kind = "fetchIncomeSources" =>
                  SortedBy(c.data, "created_at", -1) /\ OwnedBy(c.data, c.user)
            /\ c.kind = "fetchExpenses" =>
                  SortedBy(c.data, "expense_date", -1) /\ OwnedBy(c.data, c.user)
            /\ c.kind = "fetchSavingsGoals" =>
                  SortedBy(c.data, "target_date", 1) /\ OwnedBy(c.data, c.user)
    /\ SortedBy(incomeSources, "created_at", -1)
    /\ SortedBy(pageExpenses, "expense_date", -1)
    /\ SortedBy(savingsGoals, "target_date", 1)
    /\ \E u \in Users :
          /\ OwnedBy(incomeSources, u)
          /\ OwnedBy(pageExpenses, u)
          /\ OwnedBy(savingsGoals, u)

\* C23 witness: a goal added with an earlier date is displayed before the
\* one that was there
C23_EarlierGoalFirst ==
    /\ route = "savings" /\ ~loading
    /\ Len(savingsGoals) = 2
    /\ savingsGoals[1].target_date < savingsGoals[2].target_date
    /\ savingsGoals[1].id > savingsGoals[2].id

\* tenths of x
Tenths(k, x) == Frac(k * x.n, 10 * x.d)

\* data carries the three-point trend of its own totals
TrendOfTotals(data) ==
    LET trend == data.monthlyTrend
        income == data.totalIncome
        spent == Whole(data.totalExpenses)
    IN  /\ Len(trend) = 3
        /\ <<trend[1].month, trend[2].month, trend[3].month>>
              = <<"Jan", "Feb", "Mar">>
        /\ FracEq(trend[1].income, Tenths(8, income))
        /\ FracEq(trend[2].income, Tenths(9, income))
        /\ FracEq(trend[3].income, Tenths(10, income))
        /\ FracEq(trend[1].expenses, Tenths(7, spent))
        /\ FracEq(trend[2].expenses, Tenths(8, spent))
        /\ FracEq(trend[3].expenses, Tenths(10, spent))

\* C24: the trend series of the Dashboard has exactly three points, in
\* order, with 0.8, 0.9 and 1.0 times the total monthly income and 0.7, 0.8
\* and 1.0 times the total expenses of the same fetch
C24_TrendOfCurrentTotals ==
    /\ DashboardShown => TrendOfTotals(dashboardData)
    /\ \A c \in calls :
          c.kind = "fetchDashboardData" /\ c.pc = "resp" => TrendOfTotals(c.acc)

\* C24 witness: an income of 1083.33 and expenses of 75.00 are shown with a
\* first point of 866.67 and 52.50
C24_TrendShown ==
    /\ DashboardShown
    /\ FracEq(dashboardData.totalIncome, Frac(1300000, 12))
    /\ dashboardData.totalExpenses = 7500
    /\ FracEq(dashboardData.monthlyTrend[1].income, Frac(1040000, 12))
    /\ FracEq(dashboardData.monthlyTrend[1].expenses, Whole(5250))

\* total monthly income minus total expenses of the rows given
IncomeMinusExpenses(incomeRows, expenseRows) ==
    LET income == MonthlyPlusYearlyTwelfth(incomeRows)
        spent == SumOf(expenseRows, "amount")
    IN  Frac(income.n - spent * income.d, income.d)

\* C25: the available funds are the total monthly income minus the total
\* expenses, below zero when the expenses are the larger, on the Dashboard
\* (as a number) and in the generated summary (as that number to the cent)
C25_AvailableFunds ==
    /\ DashboardShown =>
          FracEq(availableFunds(dashboardData),
                 IncomeMinusExpenses(
                     {r \in income_sources : r.user_id = session},
                     {r \in expenses : r.user_id = session}))
    /\ \A c \in calls :
          PromptBuilt(c) /\ c.question = <<>> =>
             c.acc.userPrompt.availableFunds
                = NearestCent(IncomeMinusExpenses(
                                  RowsOf(c.acc.data.income_sources),
                                  RowsOf(c.acc.data.expenses)))

\* C25 witness: expenses of 75.00 against no monthly or yearly income are
\* shown as available funds of -75.00
C25_NegativeFunds ==
    /\ DashboardShown
    /\ dashboardData.totalExpenses = 7500
    /\ FracEq(availableFunds(dashboardData), Whole(-7500))

\* the number of goals added, removed or changed since the start
GoalMutations ==
    LET before == {r.id : r \in InitGoals}
        after == {r.id : r \in savings_goals}
    IN  Cardinality(after \ before) + Cardinality(before \ after)
          + Cardinality({r \in InitGoals :
                           \E q \in savings_goals : q.id = r.id /\ q # r})

\* every operation so far was a successful add, contribution or delete by
\* the signed-in user, and every handler and refetch has completed
SettledAfterMutations ==
    /\ route = "savings" /\ session \in Users
    /\ calls = {}
    /\ ops = GoalMutations

\* C26: once the refetches of a sequence of successful adds, contributions
\* and deletes have all completed, the list the Savings page displays is the
\* owner's rows in the store, in whatever order the responses arrived
C26_DisplayedIsStored ==
    SettledAfterMutations =>
        /\ RowsOf(savingsGoals) = {r \in savings_goals : r.user_id = session}
        /\ Len(savingsGoals)
              = Cardinality({r \in savings_goals : r.user_id = session})

\* C27: a contribution to a goal changes the current_amount of that goal's
\* row and nothing else: the row keeps its target_amount, target_date,
\* goal_name and owner, and every other row of the three collections stays
\* as it is; no row appears or disappears
C27_OnlyCurrentAmountChanges ==
    [][\A c \in calls :
         Writes(c) =>
           /\ income_sources' = income_sources
           /\ expenses' = expenses
           /\ {r.id : r \in savings_goals'} = {r.id : r \in savings_goals}
           /\ \A r \in savings_goals :
                 \E q \in savings_goals' :
                    IF r.id = c.id
                        THEN q = [r EXCEPT !.current_amount = q.current_amount]
                        ELSE q = r]_vars

\* C27 witness: after a contribution of 1.00 to goal 1, with a second goal
\* of the same user in the store, goal 1 differs from what it was in its
\* current_amount only and every other row is as it was
C27_OneRowOneColumn ==
    /\ toast = Success("Progress updated.")
    /\ \E r \in savings_goals, old \in InitGoals :
          /\ r.id = 1 /\ old.id = 1
          /\ r = [old EXCEPT !.current_amount = 100]
          /\ InitGoals \ {old} \subseteq savings_goals
          /\ \E q \in savings_goals : q.user_id = r.user_id /\ q.id # r.id

\* the insert, update or delete of handler c fails in this step: the handler
\* reports the error
Fails(c) ==
    /\ c \in calls /\ c \notin calls'
    /\ c.pc \in {"insert", "update", "delete"}
    /\ c.kind \in {"handleAddGoal", "handleAddIncome", "handleAddExpense",
                   "handleUpdateProgress", "handleDeleteGoal",
                   "handleDeleteIncome", "handleDeleteExpense"}
    /\ toast'.title = "Error"

\* C28: when an insert, update or delete fails the stored rows and the
\* displayed lists are unchanged, no refetch is started, and the add forms
\* keep what the user entered
C28_FailureChangesNothing ==
    [][\A c \in calls :
         Fails(c) =>
           /\ Store' = Store
           /\ <<savingsGoals, incomeSources, pageExpenses>>'
                 = <<savingsGoals, incomeSources, pageExpenses>>
           /\ calls' = calls \ {c}
           /\ <<newGoal, newIncome, newExpense>>'
                 = <<newGoal, newIncome, newExpense>>]_vars

\* C28 witness: the one operation so far was an add of a goal that the
\* database refused; the form still holds the entries and the list is the
\* fetched one
C28_RefusedAddKeepsForm ==
    /\ route = "savings" /\ calls = {} /\ ops = 1
    /\ toast = Failure("check")
    /\ newGoal # EmptyGoalForm
    /\ savingsGoals # <<>>
    /\ savings_goals = InitGoals

\* a fetch or an advice request of the mounted page ends in this step
FetchEnds(c) ==
    /\ Ends(c) /\ Live(c)
    /\ c.kind \in {"fetchSavingsGoals", "fetchIncomeSources", "fetchExpenses",
                   "fetchDashboardData", "getRecommendations"}

\* C29: a loading flag that is raised is lowered again: the fetch or advice
\* request of the mounted page leaves loading = false when it ends, with
\* data, with an error or without a user, and as every awaited call returns
\* a raised flag does not stay raised
C29_LoadingIsLowered ==
    /\ [][\A c \in calls : FetchEnds(c) => loading' = FALSE]_vars
    /\ []((\A c \in calls : ~Live(c)) => ~loading)
    /\ (loading ~> ~loading)

\* C29 witness: the first fetch of the Savings page returned an error and
\* the page is no longer loading
C29_FailedFetchLowered ==
    /\ route = "savings" /\ ~loading
    /\ calls = {} /\ ops = 0
    /\ session \in Users
    /\ toast = Failure(RequestError)
    /\ savingsGoals = <<>>
====
